---- MODULE Spec2Model ----
(***************************************************************************)
(* Knowledge-graph construction pipeline of dechivo: the Entity Resolver   *)
(* (knowledge-graph/scripts/map_entities.py), the merge of its mapping     *)
(* file (merge_ttl.py) and the Deduplicator (deduplicate_entities.py).     *)
(*                                                                         *)
(* A string is a sequence of one-character strings, so that lower(),       *)
(* strip() and replace() are computed character by character as Python     *)
(* computes them.  A graph is a set of triples <<s, p, o>>.                *)
(***************************************************************************)
EXTENDS Integers, Sequences, FiniteSets, TLC

VARIABLES
    \* label normalization (EntityMapper / EntityDeduplicator.normalize_label)
    npc, nlabel, nmapper, ndedup,
    \* Entity Resolver (EntityMapper)
    mpc, mfiles, occupations, mappings, threshold, owl,
    \* Deduplicator (EntityDeduplicator)
    dpc, graph, graph0, stats, found, duplicates, unique_count, report,
    \* runs of the Deduplicator on its own output
    runs, minted,
    \* Graph Loader (TTLMerger)
    lpc, lidx, ldirs, lmapping, lgraph, lstats,
    \* triple store (Fuseki) and the Bulk Loader scripts (load_data.py,
    \* replace_fuseki_datasets.py)
    sdatasets, scontent, fresh, faults, script, bpc, bdirs, bfile, current,
    created, sent, last, restarts, snapshot,
    \* Query Service (KnowledgeGraphService) and the store it queries
    qstore, qengine, qreachable, qcall, qresult,
    \* text of the queries the Query Service builds from caller values
    tcall, ttext,
    \* SFIAKnowledgeService, its singleton holder and the health checks
    sup, striples, connection_validated, instances, service_instance, spc,
    validated, made, handed, sanswer,
    \* concurrent callers of _execute_query on one service object
    service, cup, wrappers, cpc, cquery, cresult

normVars  == <<npc, nlabel, nmapper, ndedup>>
mapVars   == <<mpc, mfiles, occupations, mappings, threshold, owl>>
dedupVars == <<dpc, graph, graph0, stats, found, duplicates, unique_count, report>>
rerunVars == <<runs, minted>>
loadVars  == <<lpc, lidx, ldirs, lmapping, lgraph, lstats>>
storeVars == <<sdatasets, scontent, fresh, faults>>
bulkVars  == <<script, bpc, bdirs, bfile, current, created, sent, last, restarts,
               snapshot>>
queryVars == <<qstore, qengine, qreachable, qcall, qresult>>
textVars  == <<tcall, ttext>>
sfiaVars  == <<sup, striples, connection_validated, instances, service_instance, spc,
               validated, made, handed, sanswer>>
callerVars == <<service, cup, wrappers, cpc, cquery, cresult>>
extraVars == <<textVars, sfiaVars, callerVars>>
laterVars == <<loadVars, storeVars, bulkVars, queryVars, extraVars>>
vars      == <<normVars, mapVars, dedupVars, rerunVars, laterVars>>

\* the Graph Loader is not part of the run
LoadIdle ==
    /\ lpc = "idle" /\ lidx = 0 /\ ldirs = <<>> /\ lmapping = <<>>
    /\ lgraph = {} /\ lstats = <<>>

\* no Bulk Loader script is part of the run
BulkIdle ==
    /\ sdatasets = {} /\ scontent = <<>> /\ fresh = 0 /\ faults = 0
    /\ script = "idle" /\ bpc = <<"idle", 0>> /\ bdirs = <<>> /\ bfile = <<>>
    /\ current = {} /\ created = <<>> /\ sent = <<>> /\ last = <<>>
    /\ restarts = 0 /\ snapshot = <<>>

\* the Query Service is not part of the run
QueryIdle ==
    /\ qstore = {}
    /\ qengine = "idle"
    /\ qreachable = FALSE
    /\ qcall = [op |-> "idle", args |-> <<>>, trace |-> <<>>]
    /\ qresult = <<>>

\* no query text is built in the run
TextIdle == tcall = [op |-> "idle", arg |-> <<>>] /\ ttext = <<>>

\* no SFIAKnowledgeService is part of the run
SfiaIdle ==
    /\ sup = {} /\ striples = 0 /\ connection_validated = FALSE /\ instances = <<>>
    /\ service_instance = 0 /\ spc = <<>> /\ validated = {} /\ made = {}
    /\ handed = {} /\ sanswer = [op |-> "idle"]

\* no concurrent callers are part of the run
CallersIdle ==
    /\ service = <<>> /\ cup = FALSE /\ wrappers = <<>> /\ cpc = <<>>
    /\ cquery = <<>> /\ cresult = <<>>

ExtraIdle == TextIdle /\ SfiaIdle /\ CallersIdle

LaterIdle == LoadIdle /\ BulkIdle /\ QueryIdle /\ ExtraIdle

(***************************************************************************)
(* Strings                                                                 *)
(***************************************************************************)
\* str.lower() on the characters the model uses
LowerChar(c) == IF c = "A" THEN "a" ELSE IF c = "B" THEN "b" ELSE c

Lower(s) == [i \in 1..Len(s) |-> LowerChar(s[i])]

RECURSIVE LStrip(_)
LStrip(s) == IF s # <<>> /\ Head(s) = " " THEN LStrip(Tail(s)) ELSE s

RECURSIVE RStrip(_)
RStrip(s) ==
    IF s # <<>> /\ s[Len(s)] = " " THEN RStrip(SubSeq(s, 1, Len(s) - 1)) ELSE s

\* str.strip()
Strip(s) == RStrip(LStrip(s))

\* str.replace(old, new): one left-to-right pass over non-overlapping matches
RECURSIVE Replace(_, _, _)
Replace(s, old, new) ==
    IF Len(s) < Len(old) THEN s
    ELSE IF SubSeq(s, 1, Len(old)) = old
         THEN new \o Replace(SubSeq(s, Len(old) + 1, Len(s)), old, new)
         ELSE <<Head(s)>> \o Replace(Tail(s), old, new)

\* the replacement lists of the two normalize_label methods, in list order
MapperReplacements ==
    << <<(<<" ", "a", "n", "d", " ">>), (<<" ", "&", " ">>)>>,
       <<(<<" ", "/", " ">>), (<<"/">>)>>,
       <<(<<" ", " ">>), (<<" ">>)>> >>

DedupReplacements ==
    MapperReplacements \o << <<(<<",">>), (<<>>)>> >>

RECURSIVE ApplyReplacements(_, _)
ApplyReplacements(s, reps) ==
    IF reps = <<>> THEN s
    ELSE ApplyReplacements(Replace(s, Head(reps)[1], Head(reps)[2]), Tail(reps))

\* EntityMapper.normalize_label
MapperNormalize(label) == ApplyReplacements(Strip(Lower(label)), MapperReplacements)

\* EntityDeduplicator.normalize_label
DedupNormalize(label) == ApplyReplacements(Strip(Lower(label)), DedupReplacements)

\* normalize_label(label).replace(' ', '_').replace('/', '_')
MapperCanonicalId(label) ==
    Replace(Replace(MapperNormalize(label), <<" ">>, <<"_">>), <<"/">>, <<"_">>)

\* a slip in the id: the label is used as it is, not normalized
DedupCanonicalIdRaw(label) ==
    Replace(Replace(label, <<" ">>, <<"_">>), <<"/">>, <<"_">>)

DedupCanonicalId(label) ==
    Replace(Replace(DedupNormalize(label), <<" ">>, <<"_">>), <<"/">>, <<"_">>)

(***************************************************************************)
(* Label normalization applied once and twice                              *)
(***************************************************************************)
MaxLabelLen == 5

NormChars == {"a", "A", " ", "/", ","}

RECURSIVE StringsUpTo(_)
StringsUpTo(n) ==
    IF n = 0 THEN {<<>>}
    ELSE LET shorter == StringsUpTo(n - 1)
         IN  shorter \cup {Append(s, c) : s \in {t \in shorter : Len(t) = n - 1},
                                           c \in NormChars}

\* labels with the word "and", longer than the enumerated ones
NormSamples ==
    { <<"a", " ", "a", "n", "d", " ", "a">>,
      <<"a", " ", " ", "a", "n", "d", " ", "a">>,
      <<"a", " ", "a", "n", "d", " ", " ", "a">> }

NormLabels == StringsUpTo(MaxLabelLen) \cup NormSamples

NoStr == <<"?">>

NormIdle ==
    /\ npc = "idle" /\ nlabel = NoStr /\ nmapper = <<NoStr, NoStr>>
    /\ ndedup = <<NoStr, NoStr>>

NormInit ==
    /\ npc = "label"
    /\ nlabel \in NormLabels
    /\ nmapper = <<NoStr, NoStr>>
    /\ ndedup = <<NoStr, NoStr>>

\* normalize_label(label) in both classes
NormalizeOnce ==
    /\ npc = "label"
    /\ npc' = "once"
    /\ nmapper' = <<MapperNormalize(nlabel), NoStr>>
    /\ ndedup' = <<DedupNormalize(nlabel), NoStr>>
    /\ UNCHANGED nlabel

\* normalize_label(normalize_label(label)) in both classes
NormalizeTwice ==
    /\ npc = "once"
    /\ npc' = "twice"
    /\ nmapper' = <<nmapper[1], MapperNormalize(nmapper[1])>>
    /\ ndedup' = <<ndedup[1], DedupNormalize(ndedup[1])>>
    /\ UNCHANGED nlabel

NormNext == NormalizeOnce \/ NormalizeTwice

(***************************************************************************)
(* difflib.SequenceMatcher(None, a, b).ratio() on short strings (no junk:  *)
(* isjunk is None and the popularity heuristic needs 200 characters)       *)
(***************************************************************************)
\* the blocks <<i, j, k>> with a[i .. i+k-1] = b[j .. j+k-1], k >= 1
MatchingBlocks(a, b) ==
    { m \in (1..Len(a)) \X (1..Len(b)) \X (1..Len(a)) :
        /\ m[1] + m[3] - 1 <= Len(a)
        /\ m[2] + m[3] - 1 <= Len(b)
        /\ SubSeq(a, m[1], m[1] + m[3] - 1) = SubSeq(b, m[2], m[2] + m[3] - 1) }

\* find_longest_match: longest, then earliest in a, then earliest in b
LongestMatch(a, b) ==
    LET blocks == MatchingBlocks(a, b)
    IN  CHOOSE m \in blocks :
            \A n \in blocks :
                \/ m[3] > n[3]
                \/ m[3] = n[3] /\ m[1] < n[1]
                \/ m[3] = n[3] /\ m[1] = n[1] /\ m[2] <= n[2]

\* the sum of the sizes of get_matching_blocks()
RECURSIVE MatchCount(_, _)
MatchCount(a, b) ==
    IF MatchingBlocks(a, b) = {} THEN 0
    ELSE LET m == LongestMatch(a, b)
         IN  m[3]
             + MatchCount(SubSeq(a, 1, m[1] - 1), SubSeq(b, 1, m[2] - 1))
             + MatchCount(SubSeq(a, m[1] + m[3], Len(a)),
                          SubSeq(b, m[2] + m[3], Len(b)))

\* A score is the fraction <<numerator, denominator>>; 1.0 is <<1, 1>>.
One == <<1, 1>>

\* EntityMapper.calculate_similarity
MapperSimilarity(label1, label2) ==
    LET norm1 == MapperNormalize(label1)
        norm2 == MapperNormalize(label2)
    IN  IF norm1 = norm2 THEN One
        ELSE <<2 * MatchCount(norm1, norm2), Len(norm1) + Len(norm2)>>

\* score >= percent / 100
AtLeast(score, percent) == score[1] * 100 >= percent * score[2]

\* score < 1.0
BelowOne(score) == score[1] < score[2]

SameScore(s, t) == s[1] * t[2] = t[1] * s[2]

(***************************************************************************)
(* Entity Resolver: EntityMapper                                           *)
(***************************************************************************)
\* the framework keys, in the order every loop of EntityMapper visits them
MapperFrameworks == <<"ca", "esco", "onet", "sg">>

FrameworkSet == {MapperFrameworks[i] : i \in 1..Len(MapperFrameworks)}

Range(seq) == {seq[i] : i \in 1..Len(seq)}

RECURSIVE Concat(_)
Concat(seqs) == IF seqs = <<>> THEN <<>> ELSE Head(seqs) \o Concat(Tail(seqs))

RECURSIVE Filter(_, _, _)
\* the elements e of seq with e[field] = value, in order
Filter(seq, field, value) ==
    IF seq = <<>> THEN <<>>
    ELSE (IF Head(seq)[field] = value THEN <<Head(seq)>> ELSE <<>>)
         \o Filter(Tail(seq), field, value)

RECURSIVE FirstSeen(_, _)
\* the distinct values of seq[i][field], in order of first appearance
FirstSeen(seq, field) ==
    IF seq = <<>> THEN <<>>
    ELSE LET rest == FirstSeen(SubSeq(seq, 1, Len(seq) - 1), field)
             v    == seq[Len(seq)][field]
         IN  IF v \in Range(rest) THEN rest ELSE Append(rest, v)

\* The subjects the turtle files of the data directory describe: the
\* directory they are in and whether the framework's occupation namespace
\* occurs in the URI.
MapperSubjects ==
    { [uri |-> "ca1",     fw |-> "ca",   occ |-> TRUE],
      [uri |-> "esco1",   fw |-> "esco", occ |-> TRUE],
      [uri |-> "esco2",   fw |-> "esco", occ |-> TRUE],
      [uri |-> "onet1",   fw |-> "onet", occ |-> TRUE],
      [uri |-> "eskill1", fw |-> "esco", occ |-> FALSE] }

MapperUris == {x.uri : x \in MapperSubjects}

\* the rdfs:label values of the files; NoLabel for a subject without one
NoLabel == <<"<none>">>

MapperLabelPool ==
    { <<"a", "b", "c">>, <<"A", "b", "c", " ">>, <<"a", "b", "c", "d">>, <<"d">> }

MapperAltPool == { <<"a", "b", "c">>, <<"d">> }

\* the most skos:altLabel values one subject has
MaxAlts == 1

RECURSIVE SeqsUpTo(_, _)
SeqsUpTo(S, n) ==
    IF n = 0 THEN {<<>>}
    ELSE LET shorter == SeqsUpTo(S, n - 1)
         IN  shorter \cup {Append(q, x) : q \in {t \in shorter : Len(t) = n - 1},
                                           x \in S}

\* the subjects that carry alternate labels in the files
MapperAltSubjects == {"esco1", "onet1"}

MapperFileSets ==
    { f \in [MapperUris -> [label : MapperLabelPool \cup {NoLabel},
                            alts  : SeqsUpTo(MapperAltPool, MaxAlts)]] :
        /\ \A u \in MapperUris \ MapperAltSubjects : f[u].alts = <<>>
        /\ f["eskill1"].label = <<"a", "b", "c">>
        /\ f["ca1"].label # NoLabel /\ f["esco2"].label # NoLabel }

\* the orders in which glob and the rdflib store can yield the subjects of S
Orders(S) == {q \in SeqsUpTo(S, Cardinality(S)) : Range(q) = S /\ Len(q) = Cardinality(S)}

\* the orders in which load_occupations can meet the subjects: framework
\* directory by framework directory
LoadOrders ==
    LET dir(fw) == {x.uri : x \in {y \in MapperSubjects : y.fw = fw}}
    IN  {ca \o esco \o onet : ca \in Orders(dir("ca")), esco \in Orders(dir("esco")),
                               onet \in Orders(dir("onet"))}

\* load_occupations: occupations[framework][uri] = {...} for the subjects in
\* the framework's namespace that have a label; the result is the sequence
\* of the entries as the loops over self.occupations visit them.
LoadedOccupations(files, order) ==
    LET entry(u) == LET x == CHOOSE y \in MapperSubjects : y.uri = u
                    IN  [fw |-> x.fw, uri |-> u, label |-> files[u].label,
                         alts |-> files[u].alts]
        kept(u)  == LET x == CHOOSE y \in MapperSubjects : y.uri = u
                    IN  x.occ /\ files[u].label # NoLabel
        RECURSIVE Visit(_)
        Visit(q) == IF q = <<>> THEN <<>>
                    ELSE (IF kept(Head(q)) THEN <<entry(Head(q))>> ELSE <<>>)
                         \o Visit(Tail(q))
        all == Visit(order)
    IN  Concat([i \in 1..Len(MapperFrameworks) |->
                    Filter(all, "fw", MapperFrameworks[i])])

\* a slip in the index: the alternate labels are left out
RECURSIVE LabelIndexPrimaryOnly(_)
LabelIndexPrimaryOnly(occs) ==
    IF occs = <<>> THEN <<>>
    ELSE <<[key |-> MapperNormalize(Head(occs).label), occ |-> Head(occs),
            fw |-> Head(occs).fw]>>
         \o LabelIndexPrimaryOnly(Tail(occs))

\* label_index of find_exact_matches as the sequence of its appends:
\* for every entry its primary label, then each alternate label
RECURSIVE LabelIndexEntries(_)
LabelIndexEntries(occs) ==
    IF occs = <<>> THEN <<>>
    ELSE LET o == Head(occs)
         IN  <<[key |-> MapperNormalize(o.label), occ |-> o, fw |-> o.fw]>>
             \o [i \in 1..Len(o.alts) |->
                    [key |-> MapperNormalize(o.alts[i]), occ |-> o, fw |-> o.fw]]
             \o LabelIndexEntries(Tail(occs))

NoMembers == [fw \in FrameworkSet |-> <<>>]

Member(o) == [uri |-> o.uri, label |-> o.label]

\* self.mappings[label][fw].append(m), creating self.mappings[label] if absent
AppendMember(maps, label, fw, m) ==
    LET old == IF label \in DOMAIN maps THEN maps[label]
               ELSE [type |-> "none", confidence |-> <<0, 1>>, members |-> NoMembers]
    IN  [k \in DOMAIN maps \cup {label} |->
            IF k = label
            THEN [old EXCEPT !.members[fw] = Append(@, m)]
            ELSE maps[k]]

SetTypeConfidence(maps, label, type, conf) ==
    LET old == IF label \in DOMAIN maps THEN maps[label]
               ELSE [type |-> "none", confidence |-> <<0, 1>>, members |-> NoMembers]
    IN  [k \in DOMAIN maps \cup {label} |->
            IF k = label
            THEN [old EXCEPT !.type = type, !.confidence = conf]
            ELSE maps[k]]

RECURSIVE AppendAll(_, _, _)
AppendAll(maps, label, occurrences) ==
    IF occurrences = <<>> THEN maps
    ELSE AppendAll(AppendMember(maps, label, Head(occurrences).fw,
                                Member(Head(occurrences).occ)),
                   label, Tail(occurrences))

\* the body of the loop over label_index.items() for one normalized label
ExactStep(maps, entries, key) ==
    LET occurrences == Filter(entries, "key", key)
        by_framework == FirstSeen(occurrences, "fw")
    IN  IF Len(occurrences) > 1 /\ Len(by_framework) > 1
        THEN LET original_label == occurrences[1].occ.label
                 grouped == Concat([i \in 1..Len(by_framework) |->
                                Filter(occurrences, "fw", by_framework[i])])
             IN  AppendAll(SetTypeConfidence(maps, original_label, "exact", One),
                           original_label, grouped)
        ELSE maps

RECURSIVE ExactLoop(_, _, _)
ExactLoop(maps, entries, keys) ==
    IF keys = <<>> THEN maps
    ELSE ExactLoop(ExactStep(maps, entries, Head(keys)), entries, Tail(keys))

EmptyMappings == [k \in {} |-> 0]

\* find_exact_matches
ExactMatches(maps, occs) ==
    LET entries == LabelIndexEntries(occs)
    IN  ExactLoop(maps, entries, FirstSeen(entries, "key"))

FuzzyKey(label1, label2) == label1 \o <<" ", "~", " ">> \o label2

\* the pairs the four nested loops of find_fuzzy_matches visit, in order
FuzzyPairs(occs) ==
    LET n == Len(MapperFrameworks)
        of(i) == Filter(occs, "fw", MapperFrameworks[i])
        row(o1, second) == [k \in 1..Len(second) |-> <<o1, second[k]>>]
        block(i, j) == Concat([k \in 1..Len(of(i)) |-> row(of(i)[k], of(j))])
    IN  Concat([i \in 1..n |->
            Concat([d \in 1..(n - i) |-> block(i, i + d)])])

\* the body of the innermost loop of find_fuzzy_matches
FuzzyStep(maps, pair, thr) ==
    LET occ1 == pair[1]
        occ2 == pair[2]
        similarity == MapperSimilarity(occ1.label, occ2.label)
        label_key  == FuzzyKey(occ1.label, occ2.label)
    IN  IF AtLeast(similarity, thr) /\ BelowOne(similarity)
           /\ label_key \notin DOMAIN maps
        THEN AppendMember(
                 AppendMember(SetTypeConfidence(maps, label_key, "fuzzy", similarity),
                              label_key, occ1.fw, Member(occ1)),
                 label_key, occ2.fw, Member(occ2))
        ELSE maps

RECURSIVE FuzzyLoop(_, _, _)
FuzzyLoop(maps, pairs, thr) ==
    IF pairs = <<>> THEN maps
    ELSE FuzzyLoop(FuzzyStep(maps, Head(pairs), thr), Tail(pairs), thr)

\* find_fuzzy_matches(threshold)
FuzzyMatches(maps, occs, thr) == FuzzyLoop(maps, FuzzyPairs(occs), thr)

\* RDF terms are tuples of strings: a named URI, a canonical occupation URI
\* DV_OCC[id], a plain literal, a literal with lang='en'.
Uri(name) == <<name>>

CanonicalUri(id) == <<"dv-occ">> \o id

Lit(chars) == <<"lit">> \o chars

LitEn(chars) == <<"lit@en">> \o chars

\* str(literal)
LitValue(term) == Tail(term)

\* generate_owl_mappings: the triples of occupation_mappings.ttl
OwlMappings(maps) ==
    UNION { LET dechivo_uri == CanonicalUri(MapperCanonicalId(label))
            IN  {<<dechivo_uri, "label", Lit(label)>>,
                 <<dechivo_uri, "type", Uri("dv:Occupation")>>}
                \cup {<<dechivo_uri, "sameAs", Uri(m.uri)>> :
                        m \in UNION {Range(maps[label].members[fw]) :
                                        fw \in FrameworkSet}} :
            label \in {l \in DOMAIN maps : maps[l].type = "exact"} }

\* the default of find_fuzzy_matches, which main() also passes
DefaultThreshold == 85

\* the thresholds, in percent, the model calls find_fuzzy_matches with
Thresholds == {DefaultThreshold, 40}

MapIdle ==
    /\ mpc = "idle" /\ mfiles = <<>> /\ occupations = <<>>
    /\ mappings = EmptyMappings /\ threshold = 0 /\ owl = {}

\* EntityMapper(data_dir)
MapInit ==
    /\ mpc = "new"
    /\ mfiles \in MapperFileSets
    /\ occupations = <<>>
    /\ mappings = EmptyMappings
    /\ threshold = 0
    /\ owl = {}

LoadOccupations ==
    /\ mpc = "new"
    /\ \E order \in LoadOrders : occupations' = LoadedOccupations(mfiles, order)
    /\ mpc' = "loaded"
    /\ UNCHANGED <<mfiles, mappings, threshold, owl>>

FindExactMatches ==
    /\ mpc = "loaded"
    /\ mappings' = ExactMatches(mappings, occupations)
    /\ mpc' = "exact"
    /\ UNCHANGED <<mfiles, occupations, threshold, owl>>

FindFuzzyMatches ==
    /\ mpc = "exact"
    /\ \E thr \in Thresholds :
          /\ threshold' = thr
          /\ mappings' = FuzzyMatches(mappings, occupations, thr)
    /\ mpc' = "fuzzy"
    /\ UNCHANGED <<mfiles, occupations, owl>>

GenerateOwlMappings ==
    /\ mpc = "fuzzy"
    /\ owl' = OwlMappings(mappings)
    /\ mpc' = "owl"
    /\ UNCHANGED <<mfiles, occupations, mappings, threshold>>

MapNext ==
    \/ LoadOccupations
    \/ FindExactMatches
    \/ FindFuzzyMatches
    \/ GenerateOwlMappings

DedupIdle ==
    /\ dpc = "idle" /\ graph = {} /\ graph0 = {} /\ stats = <<>>
    /\ found = <<>> /\ duplicates = <<>> /\ unique_count = 0 /\ report = <<>>
    /\ runs = 0 /\ minted = {}

NormSpecInit == NormInit /\ MapIdle /\ DedupIdle /\ LaterIdle

NormSpecNext == NormNext /\ UNCHANGED <<mapVars, dedupVars, rerunVars, laterVars>>

\* normalize_label applied to a label, then to its own result
SpecNorm == NormSpecInit /\ [][NormSpecNext]_vars

MapSpecInit == MapInit /\ NormIdle /\ DedupIdle /\ LaterIdle

MapSpecNext == MapNext /\ UNCHANGED <<normVars, dedupVars, rerunVars, laterVars>>

\* map_entities.main(): load, exact pass, fuzzy pass, mapping file
SpecMap == MapSpecInit /\ [][MapSpecNext]_vars

(***************************************************************************)
(* Properties of label normalization and of the Entity Resolver            *)
(***************************************************************************)
\* C6: normalizing a normalized label changes nothing, for the Resolver's
\* and for the Deduplicator's normalize_label.
C6_NormalizeIdempotent ==
    npc = "twice" => nmapper[2] = nmapper[1] /\ ndedup[2] = ndedup[1]

\* the URIs a mapping groups
MemberUris(m) == {x.uri : x \in UNION {Range(m.members[fw]) : fw \in FrameworkSet}}

ExactKeys(maps) == {k \in DOMAIN maps : maps[k].type = "exact"}

FuzzyKeys(maps) == {k \in DOMAIN maps : maps[k].type = "fuzzy"}

\* all labels of an entry, primary and alternate
LabelsOf(o) == {o.label} \cup Range(o.alts)

\* two entries of different frameworks with a label each that normalize alike
SameKeyPair(o1, o2) ==
    /\ o1.fw # o2.fw
    /\ \E l1 \in LabelsOf(o1), l2 \in LabelsOf(o2) :
          MapperNormalize(l1) = MapperNormalize(l2)

ExactDone == mpc \in {"exact", "fuzzy", "owl"}

FuzzyDone == mpc \in {"fuzzy", "owl"}

GroupSets(maps) == {MemberUris(maps[k]) : k \in ExactKeys(maps)}

C8_ExactPrecedence ==
    FuzzyDone =>
        \A ke \in ExactKeys(mappings), kf \in FuzzyKeys(mappings) :
            \A u1 \in MemberUris(mappings[kf]), u2 \in MemberUris(mappings[kf]) :
                u1 # u2 => ~({u1, u2} \subseteq MemberUris(mappings[ke]))

\* C9: every cross-framework pair of entries whose primary-label similarity s
\* has threshold <= s < 1.0 is a fuzzy group holding both URIs with
\* confidence s, and no fuzzy group has a confidence below the threshold.
C9_FuzzyComplete ==
    FuzzyDone =>
        /\ \A o1 \in Range(occupations), o2 \in Range(occupations) :
              LET s == MapperSimilarity(o1.label, o2.label)
              IN  (o1.fw # o2.fw /\ AtLeast(s, threshold) /\ BelowOne(s)) =>
                      \E k \in FuzzyKeys(mappings) :
                          /\ {o1.uri, o2.uri} \subseteq MemberUris(mappings[k])
                          /\ SameScore(mappings[k].confidence, s)
        /\ \A k \in FuzzyKeys(mappings) :
              AtLeast(mappings[k].confidence, threshold)

(***************************************************************************)
(* Deduplicator: EntityDeduplicator on the unified graph that TTLMerger    *)
(* wrote (framework files, provenance, occupation_mappings.ttl if present) *)
(***************************************************************************)
\* The occupation subjects of the unified graph: the namespace their URI is
\* in, their rdf:type, and the name TTLMerger.frameworks tags them with.
DedupEntities ==
    { [uri |-> "esco1", ns |-> "esco", type |-> "esco:Occupation",
       name |-> <<"ESCO">>],
      [uri |-> "esco2", ns |-> "esco", type |-> "esco:Occupation",
       name |-> <<"ESCO">>],
      [uri |-> "onet1", ns |-> "onet", type |-> "onet:Occupation",
       name |-> <<"O*NET">>],
      [uri |-> "ca1",   ns |-> "ca",   type |-> "ca-oasis:Occupation",
       name |-> <<"Canada OASIS">>] }

DedupUris == {e.uri : e \in DedupEntities}

EntityOf(u) == CHOOSE e \in DedupEntities : e.uri = u

\* occupation_types of find_occupations, in list order
OccupationTypes ==
    <<"esco:Occupation", "onet:Occupation", "sg:Occupation", "ca-oasis:Occupation">>

\* the framework a URI string is recognised as by the chain of substring
\* tests ('europa.eu/esco' in uri, ...) of create_canonical_entities
UriFramework(term) ==
    IF Len(term) = 1 /\ term[1] \in DedupUris
    THEN LET ns == EntityOf(term[1]).ns
         IN  IF ns = "esco" THEN <<"ESCO">>
             ELSE IF ns = "onet" THEN <<"O*NET">>
             ELSE IF ns = "sg" THEN <<"Singapore">>
             ELSE <<"Canada">>
    ELSE <<>>

DedupLabelPool ==
    { <<"A", "b", " ">>, <<"a", ",", "b">>, <<"a", " ", "b">>, <<"a", "/", "b">> }

\* relationship and description triples the framework files may hold
RelationPool ==
    { <<Uri("esco1"), "skill", Uri("k1")>>,
      <<Uri("onet1"), "skill", Uri("k1")>>,
      <<Uri("esco1"), "related", Uri("onet1")>>,
      <<Uri("onet1"), "related", Uri("ca1")>>,
      <<Uri("onet1"), "type", Uri("ca1")>>,
      <<Uri("onet1"), "description", Lit(<<"d", "1">>)>>,
      <<Uri("esco1"), "description", Lit(<<"d", "2">>)>> }

\* the most triples of RelationPool one input graph holds
MaxRelations == 2

SubsetsUpTo(S, n) == {T \in SUBSET S : Cardinality(T) <= n}

\* what load_framework_files puts into the graph for the occupations
FrameworkTriples(labels) ==
    UNION { {<<Uri(u), "type", Uri(EntityOf(u).type)>>,
             <<Uri(u), "fromFramework", Lit(EntityOf(u).name)>>}
            \cup (IF labels[u] = NoLabel THEN {}
                  ELSE {<<Uri(u), "label", Lit(labels[u])>>}) : u \in DedupUris }

\* occupation_mappings.ttl as map_entities.main() writes it for these files
MappingFile(labels, order) ==
    LET files == [u \in MapperUris |->
                    [label |-> IF u \in DedupUris THEN labels[u] ELSE <<"a", "b", "c">>,
                     alts  |-> <<>>]]
        occs  == LoadedOccupations(files, order)
    IN  OwlMappings(FuzzyMatches(ExactMatches(EmptyMappings, occs), occs,
                                 DefaultThreshold))

\* the unified graphs TTLMerger.run() can have saved
UnifiedGraphs ==
    LET labelings == {l \in [DedupUris -> DedupLabelPool \cup {NoLabel}] :
                        \A u \in DedupUris \ {"ca1"} : l[u] # NoLabel}
        relsets   == SubsetsUpTo(RelationPool, MaxRelations)
        merged(l) == {FrameworkTriples(l) \cup maps :
                        maps \in {{}} \cup {MappingFile(l, o) : o \in LoadOrders}}
    IN  UNION { {base \cup rels : base \in merged(l), rels \in relsets} :
                l \in labelings }

ZeroStats ==
    [original_triples |-> 0, occupations_found |-> 0, duplicates_found |-> 0,
     canonical_created |-> 0, triples_removed |-> 0, triples_added |-> 0]

\* graph.value(subject, predicate): an object of the predicate, if any
HasValue(g, subj, pred) == \E t \in g : t[1] = subj /\ t[2] = pred

Value(g, subj, pred) == (CHOOSE t \in g : t[1] = subj /\ t[2] = pred)[3]

\* the orders in which graph.subjects(RDF.type, occ_type) can yield the
\* subjects, occupation type after occupation type
SubjectOrders(g) ==
    LET of(i) == {t[1] : t \in {x \in g : x[2] = "type" /\ x[3] = Uri(OccupationTypes[i])}}
    IN  {a \o b \o c \o d : a \in Orders(of(1)), b \in Orders(of(2)),
                             c \in Orders(of(3)), d \in Orders(of(4))}

\* find_occupations: the entries of the occupations dict, in insertion order
RECURSIVE FoundOccupations(_, _)
FoundOccupations(g, order) ==
    IF order = <<>> THEN <<>>
    ELSE LET subj == Head(order)
         IN  (IF HasValue(g, subj, "label") /\ LitValue(Value(g, subj, "label")) # <<>>
              THEN <<[uri |-> subj, label |-> LitValue(Value(g, subj, "label")),
                      key |-> DedupNormalize(LitValue(Value(g, subj, "label")))]>>
              ELSE <<>>)
             \o FoundOccupations(g, Tail(order))

\* duplicates[label] = group: a dict assignment, keeping the insertion order
RECURSIVE DictSet(_, _, _)
DictSet(dict, label, group) ==
    IF dict = <<>> THEN <<[label |-> label, group |-> group]>>
    ELSE IF Head(dict).label = label
         THEN <<[label |-> label, group |-> group]>> \o Tail(dict)
         ELSE <<Head(dict)>> \o DictSet(Tail(dict), label, group)

\* the loop over label_groups.items() of group_duplicates:
\* <<duplicates, unique_count>>
RECURSIVE GroupLoop(_, _, _, _)
GroupLoop(occs, keys, dups, unique) ==
    IF keys = <<>> THEN <<dups, unique>>
    ELSE LET group == Filter(occs, "key", Head(keys))
         IN  IF Len(group) > 1
             THEN GroupLoop(occs, Tail(keys),
                            DictSet(dups, group[1].label, group), unique)
             ELSE GroupLoop(occs, Tail(keys), dups, unique + 1)

\* group_duplicates
GroupDuplicates(occs) == GroupLoop(occs, FirstSeen(occs, "key"), <<>>, 0)

RECURSIVE Join(_, _)
\* sep.join(strings)
Join(strings, sep) ==
    IF strings = <<>> THEN <<>>
    ELSE IF Len(strings) = 1 THEN strings[1]
    ELSE strings[1] \o sep \o Join(Tail(strings), sep)

Digits == <<"1", "2", "3", "4", "5", "6", "7", "8", "9">>

\* Literal(n) for a small positive integer
IntLit(n) == <<"int", Digits[n]>>

\* the loop over the members of one group in create_canonical_entities:
\* [graph, descriptions, frameworks]
RECURSIVE MemberLoop(_, _, _)
MemberLoop(acc, canonical_uri, group) ==
    IF group = <<>> THEN acc
    ELSE LET occ_uri == Head(group).uri
             desc == IF HasValue(acc.graph, occ_uri, "description")
                     THEN LitValue(Value(acc.graph, occ_uri, "description"))
                     ELSE <<>>
             fw   == UriFramework(occ_uri)
         IN  MemberLoop(
                 [graph |-> acc.graph \cup {<<canonical_uri, "sameAs", occ_uri>>},
                  descriptions |->
                      IF desc # <<>> /\ desc \notin Range(acc.descriptions)
                      THEN Append(acc.descriptions, desc) ELSE acc.descriptions,
                  frameworks |->
                      IF fw # <<>> THEN acc.frameworks \cup {fw} ELSE acc.frameworks],
                 canonical_uri, Tail(group))

\* the body of the loop over duplicates.items() of create_canonical_entities
CreateStep(g, entry) ==
    LET canonical_uri == CanonicalUri(DedupCanonicalId(entry.label))
        g1  == g \cup {<<canonical_uri, "type", Uri("dv:Occupation")>>,
                       <<canonical_uri, "label", LitEn(entry.label)>>}
        acc == MemberLoop([graph |-> g1, descriptions |-> <<>>, frameworks |-> {}],
                          canonical_uri, entry.group)
        n   == Len(acc.descriptions)
        g2  == IF n > 0
               THEN acc.graph \cup
                    {<<canonical_uri, "description",
                       LitEn(Join(SubSeq(acc.descriptions, 1, IF n < 3 THEN n ELSE 3),
                                  <<" ", "|", " ">>))>>}
               ELSE acc.graph
    IN  g2 \cup {<<canonical_uri, "fromFramework", Lit(fw)>> : fw \in acc.frameworks}
           \cup {<<canonical_uri, "created", <<"date", "today">> >>,
                 <<canonical_uri, "hasVariants", IntLit(Len(entry.group))>>}

RECURSIVE CreateLoop(_, _)
CreateLoop(g, dups) ==
    IF dups = <<>> THEN g ELSE CreateLoop(CreateStep(g, Head(dups)), Tail(dups))

\* the predicates remove_duplicate_relationships keeps on a duplicate subject
KeptPredicates == {"type", "sameAs", "label"}

\* a slip in the counting: the incoming triples are listed before the
\* outgoing ones are removed and before the earlier duplicates are stripped
StripDuplicateStale(acc, dup_uri) ==
    LET outgoing == {t \in acc.graph : t[1] = dup_uri /\ t[2] \notin KeptPredicates}
        incoming == {t \in acc.start : t[3] = dup_uri /\ t[2] # "sameAs"}
    IN  [graph   |-> (acc.graph \ outgoing) \ incoming,
         removed |-> acc.removed + Cardinality(outgoing) + Cardinality(incoming),
         start   |-> acc.start]

\* a slip in the stripping: the triples that point to the duplicate stay
StripDuplicateOutgoingOnly(acc, dup_uri) ==
    LET outgoing == {t \in acc.graph : t[1] = dup_uri /\ t[2] \notin KeptPredicates}
    IN  [graph   |-> acc.graph \ outgoing,
         removed |-> acc.removed + Cardinality(outgoing),
         start   |-> acc.start]

\* a slip in the stripping: the equivalence triples that point to the
\* duplicate are removed with the other incoming triples
StripDuplicateAllIncoming(acc, dup_uri) ==
    LET outgoing == {t \in acc.graph : t[1] = dup_uri /\ t[2] \notin KeptPredicates}
        g1       == acc.graph \ outgoing
        incoming == {t \in g1 : t[3] = dup_uri}
    IN  [graph   |-> g1 \ incoming,
         removed |-> acc.removed + Cardinality(outgoing) + Cardinality(incoming),
         start   |-> acc.start]

\* the body of the loop over duplicate_uris: every listed triple is removed
\* and counted, first the outgoing ones, then the incoming ones that are left
StripDuplicate(acc, dup_uri) ==
    LET outgoing == {t \in acc.graph : t[1] = dup_uri /\ t[2] \notin KeptPredicates}
        g1       == acc.graph \ outgoing
        incoming == {t \in g1 : t[3] = dup_uri /\ t[2] # "sameAs"}
    IN  [graph   |-> g1 \ incoming,
         removed |-> acc.removed + Cardinality(outgoing) + Cardinality(incoming),
         start   |-> acc.start]

RECURSIVE StripLoop(_, _)
StripLoop(acc, dup_uris) ==
    IF dup_uris = <<>> THEN acc
    ELSE StripLoop(StripDuplicate(acc, Head(dup_uris).uri), Tail(dup_uris))

\* the loop over duplicates.items() of remove_duplicate_relationships
RECURSIVE RemoveLoop(_, _)
RemoveLoop(acc, dups) ==
    IF dups = <<>> THEN acc
    ELSE RemoveLoop(StripLoop(acc, Tail(Head(dups).group)), Tail(dups))

\* EntityDeduplicator(input_file, output_dir)
DedupInit ==
    /\ dpc = "new"
    /\ graph0 \in UnifiedGraphs
    /\ graph = graph0
    /\ stats = [ZeroStats EXCEPT !.original_triples = Cardinality(graph0)]
    /\ found = <<>>
    /\ duplicates = <<>>
    /\ unique_count = 0
    /\ report = <<>>

FindOccupations ==
    /\ dpc = "new"
    /\ \E order \in SubjectOrders(graph) : found' = FoundOccupations(graph, order)
    /\ stats' = [stats EXCEPT !.occupations_found = Len(found')]
    /\ dpc' = "found"
    /\ UNCHANGED <<graph, graph0, duplicates, unique_count, report>>

GroupDuplicatesStep ==
    /\ dpc = "found"
    /\ duplicates' = GroupDuplicates(found)[1]
    /\ unique_count' = GroupDuplicates(found)[2]
    /\ stats' = [stats EXCEPT !.duplicates_found = Len(duplicates')]
    /\ dpc' = "grouped"
    /\ UNCHANGED <<graph, graph0, found, report>>

CreateCanonicalEntities ==
    /\ dpc = "grouped"
    /\ graph' = CreateLoop(graph, duplicates)
    /\ stats' = [stats EXCEPT !.canonical_created = Len(duplicates),
                              !.triples_added = Cardinality(graph') - Cardinality(graph)]
    /\ dpc' = "created"
    /\ UNCHANGED <<graph0, found, duplicates, unique_count, report>>

RemoveDuplicateRelationships ==
    /\ dpc = "created"
    /\ LET acc == RemoveLoop([graph |-> graph, removed |-> 0, start |-> graph],
                             duplicates)
       IN  /\ graph' = acc.graph
           /\ stats' = [stats EXCEPT !.triples_removed = acc.removed]
    /\ dpc' = "removed"
    /\ UNCHANGED <<graph0, found, duplicates, unique_count, report>>

SaveStatistics ==
    /\ dpc = "removed"
    /\ report' = [original_triples |-> stats.original_triples,
                  final_triples |-> Cardinality(graph),
                  triples_removed |-> stats.triples_removed,
                  triples_added |-> stats.triples_added,
                  occupations_found |-> stats.occupations_found,
                  duplicate_groups |-> stats.duplicates_found,
                  canonical_entities_created |-> stats.canonical_created,
                  unique_occupations |->
                      stats.occupations_found - stats.duplicates_found]
    /\ dpc' = "saved"
    /\ UNCHANGED <<graph, graph0, stats, found, duplicates, unique_count>>

\* EntityDeduplicator.run()
DedupNext ==
    \/ FindOccupations
    \/ GroupDuplicatesStep
    \/ CreateCanonicalEntities
    \/ RemoveDuplicateRelationships
    \/ SaveStatistics

Init == DedupInit /\ NormIdle /\ MapIdle /\ LaterIdle /\ runs = 1 /\ minted = {}

Next == DedupNext /\ UNCHANGED <<normVars, mapVars, rerunVars, laterVars>>

Spec == Init /\ [][Next]_vars

\* the most runs of the Deduplicator in a row
MaxRuns == 2

\* the canonical ids create_canonical_entities mints for the groups
MintedIds(dups) == {DedupCanonicalId(dups[i].label) : i \in 1..Len(dups)}

\* EntityDeduplicator(input_file, output_dir).run() once more, with the
\* graph the last run saved as input_file
Rerun ==
    /\ dpc = "saved"
    /\ runs < MaxRuns
    /\ runs' = runs + 1
    /\ minted' = minted \cup MintedIds(duplicates)
    /\ dpc' = "new"
    /\ graph0' = graph
    /\ stats' = [ZeroStats EXCEPT !.original_triples = Cardinality(graph)]
    /\ found' = <<>>
    /\ duplicates' = <<>>
    /\ unique_count' = 0
    /\ UNCHANGED <<graph, report>>

RerunNext ==
    \/ DedupNext /\ UNCHANGED <<normVars, mapVars, rerunVars, laterVars>>
    \/ Rerun /\ UNCHANGED <<normVars, mapVars, laterVars>>

\* the Deduplicator run again on its own output
SpecRerun == Init /\ [][RerunNext]_vars

(***************************************************************************)
(* Properties of the Deduplicator                                          *)
(***************************************************************************)
Created == dpc \in {"created", "removed", "saved"}

Removed == dpc \in {"removed", "saved"}

DupEntries == Range(duplicates)

MembersOf(entry) == {m.uri : m \in Range(entry.group)}

KeptOf(entry) == entry.group[1].uri

StrippedOf(entry) == {m.uri : m \in Range(Tail(entry.group))}

AllStripped == UNION {StrippedOf(e) : e \in DupEntries}

CanonicalOf(entry) == CanonicalUri(DedupCanonicalId(entry.label))

IsCanonical(term) == Head(term) = "dv-occ"

\* C1: the reported final triple count is the reported original count minus
\* the reported removed count plus the reported added count.
C1_TripleAccounting ==
    dpc = "saved" =>
        report.final_triples =
            report.original_triples - report.triples_removed + report.triples_added

\* a run on a graph that already held a canonical entity of the run, in
\* which a removed triple linked two stripped members
C1_Witness ==
    /\ dpc = "saved"
    /\ \E e \in DupEntries : <<CanonicalOf(e), "type", Uri("dv:Occupation")>> \in graph0
    /\ \E t \in graph0 \ graph : t[1] \in AllStripped /\ t[3] \in AllStripped
    /\ report.triples_added > 0

\* C2: distinct duplicate groups have distinct canonical ids, so the run
\* mints as many canonical entities as it reports duplicate groups.
C2_CanonicalUnique ==
    Created =>
        /\ \A i \in 1..Len(duplicates), j \in 1..Len(duplicates) :
              i # j => CanonicalOf(duplicates[i]) # CanonicalOf(duplicates[j])
        /\ Cardinality({CanonicalOf(e) : e \in DupEntries}) = stats.duplicates_found

\* the predicates that link an occupation to a skill or to another occupation
RelationPredicates == {"skill", "related"}

\* C3: every relationship a member of a group held before the run is held
\* after the run by the group's canonical entity or by its kept member.
C3_RelationshipsPreserved ==
    Removed =>
        \A e \in DupEntries : \A t \in graph0 :
            (t[1] \in MembersOf(e) /\ t[2] \in RelationPredicates) =>
                \/ <<CanonicalOf(e), t[2], t[3]>> \in graph
                \/ <<KeptOf(e), t[2], t[3]>> \in graph

\* every member but the first has no outgoing triple other than type,
\* sameAs and label, and no incoming triple other than sameAs
StrippedBare(e) ==
    \A d \in StrippedOf(e) : \A t \in graph :
        /\ t[1] = d => t[2] \in KeptPredicates
        /\ t[3] = d => t[2] = "sameAs"

\* C4 (as amended): the first member of a group keeps every outgoing triple
\* whose object is not a stripped member; every other member is bare, and
\* still has its label triples and its type triples to anything that is
\* not a stripped member.
C4_KeptAndStripped ==
    Removed =>
        \A e \in DupEntries :
            /\ \A t \in graph0 :
                  (t[1] = KeptOf(e) /\ t[3] \notin AllStripped) => t \in graph
            /\ StrippedBare(e)
            /\ \A d \in StrippedOf(e) : \A t \in graph0 :
                  (t[1] = d /\ t[2] \in {"type", "label"} /\ t[3] \notin AllStripped)
                      => t \in graph

\* a group whose kept member keeps a skill and loses its link to a stripped
\* member, which in turn lost a relationship of its own
C4_Witness ==
    /\ dpc = "removed"
    /\ \E e \in DupEntries :
          /\ \E t \in graph : t[1] = KeptOf(e) /\ t[2] = "skill"
          /\ \E t \in graph0 \ graph : t[1] = KeptOf(e) /\ t[3] \in StrippedOf(e)
          /\ \E t \in graph0 \ graph : t[1] \in StrippedOf(e)

\* C4 (as stated): the first member keeps all its outgoing triples, and the
\* other members keep all their type and label triples.
C4_KeptKeepsAll ==
    Removed =>
        \A e \in DupEntries :
            /\ \A t \in graph0 : t[1] = KeptOf(e) => t \in graph
            /\ StrippedBare(e)
            /\ \A d \in StrippedOf(e) : \A t \in graph0 :
                  (t[1] = d /\ t[2] \in {"type", "label"}) => t \in graph

\* the canonical occupation URIs with an equivalence triple to a term
Claimants(g, term) ==
    {t[1] : t \in {x \in g : x[2] = "sameAs" /\ x[3] = term /\ IsCanonical(x[1])}}

C10_ResolverGroupsOnly ==
    Created =>
        \A e \in DupEntries :
            /\ Cardinality({UriFramework(u) : u \in MembersOf(e)}) >= 2
            /\ \A m \in Range(e.group), n \in Range(e.group) :
                  MapperNormalize(m.label) = MapperNormalize(n.label)

\* C11: after a complete run each canonical entity has an equivalence triple
\* to every member of its group, the stripped members included, and the run
\* added no equivalence triple whose subject is a member.
C11_SameAsToEveryMember ==
    dpc = "saved" =>
        /\ \A e \in DupEntries : \A m \in MembersOf(e) :
              <<CanonicalOf(e), "sameAs", m>> \in graph
        /\ \A t \in graph \ graph0 :
              t[2] = "sameAs" => (IsCanonical(t[1]) /\ ~IsCanonical(t[3]))

\* a finished run in which a stripped member lost a triple that pointed to
\* it and is still the object of the equivalence triple the run added
C11_Witness ==
    /\ dpc = "saved"
    /\ \E e \in DupEntries : \E d \in StrippedOf(e) :
          /\ \E t \in graph0 \ graph : t[3] = d
          /\ <<CanonicalOf(e), "sameAs", d>> \in graph \ graph0

\* the framework-provenance values a graph holds for a subject
TagsOf(g, subj) == {t[3] : t \in {x \in g : x[1] = subj /\ x[2] = "fromFramework"}}

\* C12: the framework-provenance values of a canonical entity are exactly
\* the values the Graph Loader put on the members of its group, one per
\* distinct framework of the group.
C12_TagsInherited ==
    Created =>
        \A e \in DupEntries :
            /\ TagsOf(graph, CanonicalOf(e)) =
                   UNION {TagsOf(graph0, m) : m \in MembersOf(e)}
            /\ Cardinality(TagsOf(graph, CanonicalOf(e))) =
                   Cardinality({UriFramework(m) : m \in MembersOf(e)})

\* the occupations find_occupations found that are in no duplicate group
UniqueOccupations == {o.uri : o \in Range(found)} \ UNION {MembersOf(e) : e \in DupEntries}

\* C13: an occupation in no duplicate group is left as it was: the final
\* graph has no equivalence triple that points to it, and every triple that
\* had it as subject before the run is still there.
C13_UniqueUntouched ==
    dpc = "saved" =>
        \A u \in UniqueOccupations :
            /\ \A t \in graph : t[2] = "sameAs" => t[3] # u
            /\ \A t \in graph0 : t[1] = u => t \in graph

\* C14: the canonical id of a group is the same whichever member is first
\* (every member's label gives it, and it is a function of the group's
\* normalized label), and a run on the output of an earlier run mints no
\* canonical id the earlier runs did not mint.
C14_DeterministicIds ==
    Created =>
        /\ \A e \in DupEntries : \A m \in Range(e.group) :
              /\ DedupCanonicalId(m.label) = DedupCanonicalId(e.label)
              /\ DedupCanonicalId(e.label) =
                    Replace(Replace(m.key, <<" ">>, <<"_">>), <<"/">>, <<"_">>)
        /\ runs > 1 => MintedIds(duplicates) \subseteq minted

\* a second run has minted the ids of its groups, and one canonical entity
\* has the labels of two different members of its group: the two runs met
\* the members in different orders
C14_Witness ==
    /\ runs = 2
    /\ dpc = "created"
    /\ \E e \in DupEntries : \E m \in Range(e.group) :
          /\ m.label # e.label
          /\ <<CanonicalOf(e), "label", LitEn(m.label)>> \in graph
          /\ <<CanonicalOf(e), "label", LitEn(e.label)>> \in graph

(***************************************************************************)
(* Graph Loader (merge_ttl.py, TTLMerger)                                  *)
(***************************************************************************)
\* the framework keys in the order run() loads them
LoaderFrameworks == <<"ca", "esco", "onet", "sg">>

\* self.frameworks[key]['name']
FrameworkName(key) ==
    IF key = "ca" THEN <<"Canada OASIS">>
    ELSE IF key = "esco" THEN <<"ESCO">>
    ELSE IF key = "onet" THEN <<"O*NET">>
    ELSE <<"Singapore">>

BNode(name) == <<"bnode", name>>

\* isinstance(term, URIRef)
IsURIRef(term) == Head(term) \notin {"lit", "lit@en", "int", "date", "bnode"}

OntologyClasses ==
    {"Occupation", "Skill", "Knowledge", "Ability", "Technology", "Competency",
     "Sector"}

OntologyProperties ==
    {"requiresSkill", "requiresKnowledge", "requiresAbility", "requiresCompetency",
     "usesTechnology", "hasEssentialSkill", "hasOptionalSkill", "belongsToSector",
     "fromFramework", "proficiencyLevel", "medianSalary", "jobOutlook"}

\* the triples add_ontology_header adds
OntologyHeader ==
    LET dv_ontology == Uri("dv-ontology")
        defs(names, kind) ==
            UNION { { <<Uri(n), "type", Uri(kind)>>,
                      <<Uri(n), "label", Lit(<<n>>)>>,
                      <<Uri(n), "description", Lit(<<"about", n>>)>> } : n \in names }
    IN  { <<dv_ontology, "type", Uri("owl:Ontology")>>,
          <<dv_ontology, "label", Lit(<<"Dechivo Unified Ontology">>)>>,
          <<dv_ontology, "description", Lit(<<"Unified knowledge graph">>)>>,
          <<dv_ontology, "created", <<"date", "today">> >>,
          <<dv_ontology, "versionInfo", Lit(<<"1.0">>)>> }
        \cup defs(OntologyClasses, "owl:Class")
        \cup defs(OntologyProperties, "owl:ObjectProperty")

\* what a Turtle document holds: for a document the parser rejects, the
\* triples it had read when it raised
DocPool ==
    { { <<Uri("esco1"), "type", Uri("esco:Occupation")>>,
        <<Uri("esco1"), "label", Lit(<<"a">>)>> },
      { <<Uri("esco1"), "skill", Uri("k1")>>,
        <<Uri("k1"), "type", Uri("esco:Skill")>> },
      { <<BNode("b1"), "label", Lit(<<"b">>)>>,
        <<Uri("esco1"), "label", Lit(<<"a">>)>> } }

Documents == [valid : BOOLEAN, triples : DocPool]

\* the most documents one framework directory holds
MaxDocs == 2

\* a framework directory: whether it exists and, if so, its documents in
\* the order glob('*.ttl') yields them
Directories ==
    { d \in [exists : BOOLEAN, files : SeqsUpTo(Documents, MaxDocs)] :
        ~d.exists => d.files = <<>> }

\* the data directories the loader can be started on
DataDirs ==
    { d \in [FrameworkSet -> Directories] :
        /\ d["ca"].exists => Len(d["ca"].files) = 1
        /\ d["onet"].exists /\ Len(d["onet"].files) = 1
        /\ d["onet"].files[1].triples =
               { <<Uri("esco1"), "type", Uri("esco:Occupation")>>,
                 <<Uri("esco1"), "label", Lit(<<"a">>)>> }
        /\ d["sg"].files = <<>> }

\* a slip in the loading: the document is parsed straight into the main
\* graph, so what was read before a parse error stays
LoadFileIntoMain(acc, doc, name) ==
    IF doc.valid
    THEN LET subjects == {t[1] : t \in doc.triples}
         IN  [graph  |-> acc.graph \cup doc.triples
                            \cup {<<subj, "fromFramework", Lit(name)>> :
                                     subj \in {x \in subjects : IsURIRef(x)}},
              loaded |-> acc.loaded + 1,
              failed |-> acc.failed]
    ELSE [graph |-> acc.graph \cup doc.triples, loaded |-> acc.loaded,
          failed |-> acc.failed + 1]

\* the body of the loop over ttl_files of load_framework_files for one
\* document: parse into temp_graph, then copy and tag
LoadFile(acc, doc, name) ==
    IF doc.valid
    THEN LET subjects == {t[1] : t \in doc.triples}
         IN  [graph  |-> acc.graph \cup doc.triples
                            \cup {<<subj, "fromFramework", Lit(name)>> :
                                     subj \in {x \in subjects : IsURIRef(x)}},
              loaded |-> acc.loaded + 1,
              failed |-> acc.failed]
    ELSE [graph |-> acc.graph, loaded |-> acc.loaded, failed |-> acc.failed + 1]

RECURSIVE LoadFiles(_, _, _)
LoadFiles(acc, docs, name) ==
    IF docs = <<>> THEN acc
    ELSE LoadFiles(LoadFile(acc, Head(docs), name), Tail(docs), name)

ZeroLoaderStats ==
    [files_loaded |-> 0, files_failed |-> 0, triples_total |-> 0,
     triples_by_framework |-> [k \in {} |-> 0],
     entities_by_type |-> [k \in {} |-> 0]]

\* what occupation_mappings.ttl can be: not there, or a document with the
\* triples the parser reads from it before it ends or raises
MappingDocs ==
    { [exists |-> e, valid |-> v,
       triples |-> IF e THEN { <<CanonicalUri(<<"a">>), "type", Uri("dv:Occupation")>>,
                               <<CanonicalUri(<<"a">>), "sameAs", Uri("esco1")>> }
                   ELSE {}] :
        e \in BOOLEAN, v \in BOOLEAN }

\* TTLMerger(data_dir, output_dir)
LoadInit ==
    /\ lpc = "new"
    /\ lidx = 0
    /\ ldirs \in DataDirs
    /\ lmapping \in MappingDocs
    /\ lgraph = {}
    /\ lstats = ZeroLoaderStats

AddOntologyHeader ==
    /\ lpc = "new"
    /\ lgraph' = lgraph \cup OntologyHeader
    /\ lpc' = "frameworks"
    /\ UNCHANGED <<lidx, ldirs, lmapping, lstats>>

\* load_framework_files(framework_key) for the next key of run()
LoadFrameworkFiles ==
    /\ lpc = "frameworks"
    /\ lidx < Len(LoaderFrameworks)
    /\ lidx' = lidx + 1
    /\ LET framework_key == LoaderFrameworks[lidx + 1]
           ttl_files == ldirs[framework_key].files
       IN  IF ~ldirs[framework_key].exists
           THEN UNCHANGED <<lgraph, lstats>>
           ELSE LET acc == LoadFiles([graph |-> lgraph, loaded |-> 0, failed |-> 0],
                                     ttl_files, FrameworkName(framework_key))
                    by  == lstats.triples_by_framework
                IN  /\ lgraph' = acc.graph
                    /\ lstats' =
                         [lstats EXCEPT
                            !.files_loaded = @ + acc.loaded,
                            !.files_failed = @ + acc.failed,
                            !.triples_by_framework =
                                [k \in DOMAIN by \cup {framework_key} |->
                                    IF k = framework_key
                                    THEN Cardinality(acc.graph) - Cardinality(lgraph)
                                    ELSE by[k]]]
    /\ lpc' = IF lidx' = Len(LoaderFrameworks) THEN "loaded" ELSE "frameworks"
    /\ UNCHANGED <<ldirs, lmapping>>

\* add_entity_mappings: the mapping file is parsed straight into the graph,
\* so what was read before a parse error stays
AddEntityMappings ==
    /\ lpc = "loaded"
    /\ lgraph' = IF lmapping.exists THEN lgraph \cup lmapping.triples ELSE lgraph
    /\ lpc' = "mapped"
    /\ UNCHANGED <<lidx, ldirs, lmapping, lstats>>

\* str(o).split('/')[-1] for the type URIs of the model
TypeName(o) ==
    IF o \in {Uri("esco:Occupation"), Uri("dv:Occupation")} THEN "Occupation"
    ELSE IF o = Uri("esco:Skill") THEN "Skill"
    ELSE IF o = Uri("owl:Class") THEN "owl#Class"
    ELSE IF o = Uri("owl:ObjectProperty") THEN "owl#ObjectProperty"
    ELSE "owl#Ontology"

CalculateStatistics ==
    /\ lpc = "mapped"
    /\ LET typed == {t \in lgraph : t[2] = "type" /\ IsURIRef(t[3])}
           names == {TypeName(t[3]) : t \in typed}
       IN  lstats' = [lstats EXCEPT
                        !.triples_total = Cardinality(lgraph),
                        !.entities_by_type =
                            [n \in names |->
                                Cardinality({t \in typed : TypeName(t[3]) = n})]]
    /\ lpc' = "counted"
    /\ UNCHANGED <<lidx, ldirs, lmapping, lgraph>>

\* save_graph and save_statistics
SaveGraph ==
    /\ lpc = "counted"
    /\ lpc' = "saved"
    /\ UNCHANGED <<lidx, ldirs, lmapping, lgraph, lstats>>

\* TTLMerger.run()
LoadNext ==
    \/ AddOntologyHeader
    \/ LoadFrameworkFiles
    \/ AddEntityMappings
    \/ CalculateStatistics
    \/ SaveGraph

LoadSpecInit ==
    LoadInit /\ NormIdle /\ MapIdle /\ DedupIdle /\ BulkIdle /\ QueryIdle /\ ExtraIdle

LoadSpecNext ==
    LoadNext /\ UNCHANGED <<normVars, mapVars, dedupVars, rerunVars, storeVars, bulkVars,
                           queryVars, extraVars>>

SpecLoad == LoadSpecInit /\ [][LoadSpecNext]_vars

(***************************************************************************)
(* Triple store (Fuseki) as the Bulk Loader scripts talk to it, and the    *)
(* two scripts: load_data.py (FusekiLoader) and replace_fuseki_datasets.py *)
(* (FusekiManager).  A request is either answered by the store or fails    *)
(* (no connection, 5xx) and then leaves the store as it was.               *)
(***************************************************************************)
\* datasets = {...} of load_data.main, in dict order
LoaderDatasets == <<"dechivo", "ca", "esco", "onet", "sg">>

\* old_datasets of replace_fuseki_datasets.main
OldDatasets == <<"ca", "esco", "onet", "sg", "dechivo">>

DatasetNames == Range(LoaderDatasets) \cup {"unified"}

\* the default graph of a dataset
DefaultGraph == <<"default">>

\* ttl_file.stem of the documents of a directory, by position
FileIds == <<"f1", "f2", "f3">>

\* the labels the store gives to the blank nodes of the uploads
FreshNames ==
    <<"g1", "g2", "g3", "g4", "g5", "g6", "g7", "g8", "g9", "g10", "g11", "g12",
      "g13", "g14", "g15", "g16", "g17", "g18", "g19", "g20">>

IsBlank(term) == Head(term) = "bnode"

HasBlank(doc) == \E t \in doc.triples : IsBlank(t[1]) \/ IsBlank(t[3])

\* the triples of an uploaded document as the store adds them: the blank
\* nodes of a payload are new nodes of the store
Relabel(triples, n) ==
    LET node(term) == IF IsBlank(term) THEN BNode(FreshNames[n + 1]) ELSE term
    IN  {<<node(t[1]), t[2], node(t[3])>> : t \in triples}

\* GET /$/datasets
HttpListDatasets(st, ok) ==
    [status |-> IF ok THEN 200 ELSE 500, names |-> IF ok THEN st.datasets ELSE {}]

\* POST /$/datasets
HttpCreateDataset(st, name, ok) ==
    IF ~ok THEN [status |-> 500, st |-> st]
    ELSE IF name \in st.datasets THEN [status |-> 409, st |-> st]
    ELSE [status |-> 200,
          st |-> [st EXCEPT !.datasets = @ \cup {name}, !.content[name] = {}]]

\* DELETE /$/datasets/{name}
HttpDeleteDataset(st, name, ok) ==
    IF ~ok THEN [status |-> 500, st |-> st]
    ELSE IF name \notin st.datasets THEN [status |-> 404, st |-> st]
    ELSE [status |-> 200,
          st |-> [st EXCEPT !.datasets = @ \ {name}, !.content[name] = {}]]

\* POST /{dataset}/data[?graph=...] with a Turtle payload
HttpPostData(st, name, graph_name, doc, ok) ==
    IF ~ok THEN [status |-> 500, st |-> st]
    ELSE IF name \notin st.datasets THEN [status |-> 404, st |-> st]
    ELSE IF ~doc.valid THEN [status |-> 400, st |-> st]
    ELSE [status |-> 200,
          st |-> [st EXCEPT
                    !.content[name] =
                        @ \cup {<<graph_name, t>> : t \in Relabel(doc.triples, st.fresh)},
                    !.fresh = IF HasBlank(doc) THEN @ + 1 ELSE @]]

\* FusekiLoader.dataset_exists
LoaderDatasetExists(st, dataset_name, ok) ==
    LET response == HttpListDatasets(st, ok)
    IN  response.status = 200 /\ dataset_name \in response.names

\* FusekiLoader.create_dataset: [result, st, posted, answered]
LoaderCreateDataset(st, dataset_name, okGet, okPost) ==
    IF LoaderDatasetExists(st, dataset_name, okGet)
    THEN [result |-> TRUE, st |-> st, posted |-> FALSE, answered |-> TRUE]
    ELSE LET response == HttpCreateDataset(st, dataset_name, okPost)
         IN  [result |-> response.status \in {200, 201}, st |-> response.st,
              posted |-> TRUE, answered |-> okPost]

\* FusekiManager.create_dataset
ManagerCreateDataset(st, dataset_name, okPost) ==
    LET response == HttpCreateDataset(st, dataset_name, okPost)
    IN  [result |-> response.status \in {200, 409}, st |-> response.st,
         posted |-> TRUE, answered |-> okPost]

\* FusekiManager.delete_dataset
ManagerDeleteDataset(st, dataset_name, ok) ==
    LET response == HttpDeleteDataset(st, dataset_name, ok)
    IN  [result |-> response.status \in {200, 404}, st |-> response.st]

\* FusekiLoader.load_turtle_file
LoadTurtleFile(st, dataset_name, doc, graph_name, ok) ==
    LET response == HttpPostData(st, dataset_name, graph_name, doc, ok)
    IN  [result |-> response.status \in {200, 201, 204}, st |-> response.st]

\* FusekiManager.load_ttl_file
LoadTtlFile(st, dataset_name, doc, ok) ==
    LET response == HttpPostData(st, dataset_name, DefaultGraph, doc, ok)
    IN  [result |-> response.status \in {200, 201}, st |-> response.st]

\* the loop of FusekiLoader.load_directory from document i on:
\* [st, loaded, failed]; oks[i] tells whether the i-th upload request is
\* answered
RECURSIVE LoadDirectoryFrom(_, _, _, _, _, _)
LoadDirectoryFrom(acc, dataset_name, ttl_files, graph_prefix, oks, i) ==
    IF i > Len(ttl_files) THEN acc
    ELSE LET graph_name == IF graph_prefix = <<>> THEN DefaultGraph
                           ELSE graph_prefix \o <<FileIds[i]>>
             r == LoadTurtleFile(acc.st, dataset_name, ttl_files[i], graph_name, oks[i])
         IN  LoadDirectoryFrom(
                 [st |-> r.st,
                  loaded |-> IF r.result THEN acc.loaded + 1 ELSE acc.loaded,
                  failed |-> IF r.result THEN acc.failed ELSE acc.failed + 1],
                 dataset_name, ttl_files, graph_prefix, oks, i + 1)

\* FusekiLoader.load_directory
LoadDirectory(st, dataset_name, ttl_files, graph_prefix, oks) ==
    LoadDirectoryFrom([st |-> st, loaded |-> 0, failed |-> 0],
                      dataset_name, ttl_files, graph_prefix, oks, 1)

\* the most requests the store leaves unanswered
MaxFaults == 1

\* the most times a script is started again
MaxRestarts == 1

Store == [datasets |-> sdatasets, content |-> scontent, fresh |-> fresh]

SetStore(st) ==
    /\ sdatasets' = st.datasets
    /\ scontent' = st.content
    /\ fresh' = st.fresh

Unanswered(oks) == Cardinality({i \in DOMAIN oks : ~oks[i]})

\* the requests of a step are answered or not, within the budget
Answers(n) == {oks \in [1..n -> BOOLEAN] : faults + Unanswered(oks) <= MaxFaults}

\* frameworks = [...] of load_data.main: dataset, directory, graph prefix
BulkFrameworks ==
    << [dataset |-> "ca",   dir |-> "ca",   graph_prefix |-> <<"graph/ca">>],
       [dataset |-> "esco", dir |-> "esco", graph_prefix |-> <<"graph/esco">>],
       [dataset |-> "onet", dir |-> "onet", graph_prefix |-> <<"graph/onet">>],
       [dataset |-> "sg",   dir |-> "sg",   graph_prefix |-> <<"graph/sg">>] >>

GroundDoc ==
    [valid |-> TRUE,
     triples |-> { <<Uri("esco1"), "type", Uri("esco:Occupation")>>,
                   <<Uri("esco1"), "label", Lit(<<"a">>)>> }]

\* the data directories load_data.main can be started on
BulkDirs ==
    { d \in [FrameworkSet -> Directories] :
        /\ d["ca"] = [exists |-> TRUE, files |-> <<GroundDoc>>]
        /\ d["esco"].exists /\ Len(d["esco"].files) >= 1
        /\ d["onet"].exists => d["onet"].files = <<GroundDoc>>
        /\ d["sg"] = [exists |-> TRUE, files |-> <<>>] }

\* deduplicated_knowledge_graph.ttl: whether it is there, and what it holds
BulkFiles ==
    {[exists |-> FALSE, doc |-> GroundDoc]}
        \cup {[exists |-> TRUE, doc |-> [valid |-> TRUE, triples |-> t]] : t \in DocPool}

NoContent == [n \in DatasetNames |-> {}]

\* the stores a script can find: nothing there; an empty 'esco' left by a
\* run that stopped after creating it; the old datasets with served data
InitialStores ==
    { [datasets |-> {}, content |-> NoContent, fresh |-> 0],
      [datasets |-> {"esco"}, content |-> NoContent, fresh |-> 0],
      [datasets |-> Range(OldDatasets),
       content |-> [NoContent EXCEPT !["dechivo"] =
                        {<<DefaultGraph, <<Uri("old1"), "label", Lit(<<"o">>)>> >>}],
       fresh |-> 0] }

NotCreated == [n \in DatasetNames |-> "not called"]

NothingSent == [n \in DatasetNames |-> 0]

NoCall == [name |-> "", result |-> FALSE, answered |-> FALSE, existed |-> FALSE,
           unchanged |-> TRUE]

StartOf(which) == IF which = "load_data" THEN <<"create", 1>> ELSE <<"list", 0>>

BulkInit ==
    /\ script \in {"load_data", "replace"}
    /\ \E st \in InitialStores :
          sdatasets = st.datasets /\ scontent = st.content /\ fresh = st.fresh
    /\ faults = 0
    /\ bpc = StartOf(script)
    /\ bdirs \in BulkDirs
    /\ bfile \in BulkFiles
    /\ script = "load_data" => bfile = [exists |-> FALSE, doc |-> GroundDoc]
    /\ script = "replace" =>
          bdirs = [fw \in FrameworkSet |->
                      IF fw = "sg" THEN [exists |-> TRUE, files |-> <<>>]
                      ELSE IF fw = "onet" THEN [exists |-> FALSE, files |-> <<>>]
                      ELSE [exists |-> TRUE, files |-> <<GroundDoc>>]]
    /\ current = {}
    /\ created = NotCreated
    /\ sent = NothingSent
    /\ last = NoCall
    /\ restarts = 0
    /\ snapshot = [complete |-> FALSE, datasets |-> sdatasets, content |-> scontent,
                   faults |-> 0]

\* what a create_dataset call did, for the record
CallRecord(name, r) ==
    [name |-> name, result |-> r.result, answered |-> r.answered,
     existed |-> name \in sdatasets, unchanged |-> r.st = Store]

\* load_data.main, "Creating Datasets": loader.create_dataset(dataset_name)
\* for the next name; the return value is not used
BulkCreateDataset ==
    /\ script = "load_data"
    /\ bpc[1] = "create"
    /\ LET dataset_name == LoaderDatasets[bpc[2]]
       IN  \E oks \in Answers(2) :
              LET r == LoaderCreateDataset(Store, dataset_name, oks[1], oks[2])
              IN  /\ (~r.posted => oks[2])
                  /\ SetStore(r.st)
                  /\ faults' = faults + Unanswered(oks)
                  /\ created' = [created EXCEPT ![dataset_name] =
                                    IF r.result THEN "ok" ELSE "failed"]
                  /\ last' = CallRecord(dataset_name, r)
    /\ bpc' = IF bpc[2] < Len(LoaderDatasets) THEN <<"create", bpc[2] + 1>>
              ELSE <<"load", 1>>
    /\ UNCHANGED <<script, bdirs, bfile, current, sent, restarts, snapshot>>

\* load_data.main, "Loading Data": the body of the loop over frameworks
BulkLoadFramework ==
    /\ script = "load_data"
    /\ bpc[1] = "load"
    /\ LET fw == BulkFrameworks[bpc[2]]
           framework_dir == bdirs[fw.dir]
           n == Len(framework_dir.files)
       IN  IF ~framework_dir.exists \/ n = 0
           THEN UNCHANGED <<storeVars, sent>>
           ELSE \E oks \in Answers(2 * n) :
                  LET first  == LoadDirectory(Store, fw.dataset, framework_dir.files,
                                              <<>>, SubSeq(oks, 1, n))
                      second == LoadDirectory(first.st, "dechivo", framework_dir.files,
                                              fw.graph_prefix, SubSeq(oks, n + 1, 2 * n))
                  IN  /\ SetStore(second.st)
                      /\ faults' = faults + Unanswered(oks)
                      /\ sent' = [sent EXCEPT ![fw.dataset] = @ + n,
                                              !["dechivo"] = @ + n]
    /\ bpc' = IF bpc[2] < Len(BulkFrameworks) THEN <<"load", bpc[2] + 1>>
              ELSE <<"done", 0>>
    /\ UNCHANGED <<script, bdirs, bfile, current, created, last, restarts, snapshot>>

\* replace_fuseki_datasets.main, step 1: manager.list_datasets()
ReplaceListDatasets ==
    /\ script = "replace"
    /\ bpc[1] = "list"
    /\ \E oks \in Answers(1) :
          /\ current' = HttpListDatasets(Store, oks[1]).names
          /\ faults' = faults + Unanswered(oks)
    /\ bpc' = <<"delete", 1>>
    /\ UNCHANGED <<sdatasets, scontent, fresh, script, bdirs, bfile, created, sent,
                   last, restarts, snapshot>>

\* step 2: the body of the loop over old_datasets
ReplaceDeleteDataset ==
    /\ script = "replace"
    /\ bpc[1] = "delete"
    /\ LET dataset == OldDatasets[bpc[2]]
       IN  IF dataset \in current
           THEN \E oks \in Answers(1) :
                  /\ SetStore(ManagerDeleteDataset(Store, dataset, oks[1]).st)
                  /\ faults' = faults + Unanswered(oks)
           ELSE UNCHANGED storeVars
    /\ bpc' = IF bpc[2] < Len(OldDatasets) THEN <<"delete", bpc[2] + 1>>
              ELSE <<"create", 0>>
    /\ UNCHANGED <<script, bdirs, bfile, current, created, sent, last, restarts,
                   snapshot>>

\* step 3: manager.create_dataset('unified'); the return value is not used
ReplaceCreateDataset ==
    /\ script = "replace"
    /\ bpc[1] = "create"
    /\ \E oks \in Answers(1) :
          LET r == ManagerCreateDataset(Store, "unified", oks[1])
          IN  /\ SetStore(r.st)
              /\ faults' = faults + Unanswered(oks)
              /\ created' = [created EXCEPT !["unified"] =
                                IF r.result THEN "ok" ELSE "failed"]
              /\ last' = CallRecord("unified", r)
    /\ bpc' = <<"upload", 0>>
    /\ UNCHANGED <<script, bdirs, bfile, current, sent, restarts, snapshot>>

\* steps 4 to 6: the file check, manager.load_ttl_file('unified', ttl_file),
\* manager.count_triples('unified') and the return value of main; when the
\* count request is not answered, count is None and formatting it raises
ReplaceLoadFile ==
    /\ script = "replace"
    /\ bpc[1] = "upload"
    /\ IF ~bfile.exists
       THEN /\ bpc' = <<"failed", 0>>
            /\ UNCHANGED <<storeVars, sent>>
       ELSE \E oks \in Answers(2) :
              LET r == LoadTtlFile(Store, "unified", bfile.doc, oks[1])
              IN  /\ (~r.result => oks[2])
                  /\ SetStore(r.st)
                  /\ faults' = faults + Unanswered(oks)
                  /\ sent' = [sent EXCEPT !["unified"] = @ + 1]
                  /\ bpc' = IF ~r.result THEN <<"failed", 0>>
                            ELSE IF oks[2] THEN <<"done", 0>>
                            ELSE <<"raised", 0>>
    /\ UNCHANGED <<script, bdirs, bfile, current, created, last, restarts, snapshot>>

\* the script stops where it is (it ended, or it was killed) and is started
\* again on the same files; snapshot is the store as the new run finds it,
\* and whether the run before came to its end
Restart ==
    /\ script \in {"load_data", "replace"}
    /\ restarts < MaxRestarts
    /\ restarts' = restarts + 1
    /\ snapshot' = [complete |-> bpc[1] = "done", datasets |-> sdatasets,
                    content |-> scontent, faults |-> faults]
    /\ bpc' = StartOf(script)
    /\ current' = {}
    /\ created' = NotCreated
    /\ sent' = NothingSent
    /\ last' = NoCall
    /\ UNCHANGED <<storeVars, script, bdirs, bfile>>

BulkNext ==
    \/ BulkCreateDataset
    \/ BulkLoadFramework
    \/ ReplaceListDatasets
    \/ ReplaceDeleteDataset
    \/ ReplaceCreateDataset
    \/ ReplaceLoadFile
    \/ Restart

BulkSpecInit ==
    BulkInit /\ NormIdle /\ MapIdle /\ DedupIdle /\ LoadIdle /\ QueryIdle /\ ExtraIdle

BulkSpecNext ==
    BulkNext /\ UNCHANGED <<normVars, mapVars, dedupVars, rerunVars, loadVars, queryVars,
                            extraVars>>

\* the Bulk Loader scripts against the store
SpecBulk == BulkSpecInit /\ [][BulkSpecNext]_vars

(***************************************************************************)
(* Query Service (kg_service.py, sparql_queries.py).  The store answers a  *)
(* query with the JSON bindings of its solutions, or the request fails.    *)
(* A binding is [type, value]; a result row maps the bound variables of a  *)
(* solution to their values, and a variable that is unbound has no key.    *)
(***************************************************************************)
\* the skill predicates of the queries' FILTER(?relation IN (...))
SkillPredicates ==
    {"esco:hasEssentialSkill", "esco:hasOptionalSkill", "onet:requiresSkill",
     "sg:requiresSkill", "dv:requiresSkill"}

\* the most skill links one occupation of the store has
MaxLinks == 2

QueryOccupations == {"o1", "o2", "o3"}
QuerySkills == {"s1", "s2", "s3", "s4"}

\* the links the occupations o1 and o2 of the store can have
LinkPool ==
    [o1 |-> {<<"esco:hasEssentialSkill", "s1">>, <<"esco:hasOptionalSkill", "s2">>,
             <<"onet:requiresSkill", "s3">>, <<"sg:requiresSkill", "s4">>,
             <<"dv:requiresSkill", "s3">>, <<"esco:hasOptionalSkill", "s1">>},
     o2 |-> {<<"esco:hasEssentialSkill", "s2">>, <<"onet:requiresSkill", "s3">>,
             <<"dv:requiresSkill", "s1">>, <<"esco:hasOptionalSkill", "s4">>}]

LinkSets(occ) == {L \in SUBSET LinkPool[occ] : Cardinality(L) <= MaxLinks}

\* labels, descriptions, types and provenance of the entities of the store
QueryFixedTriples ==
    {<<Uri("o1"), "rdfs:label", Lit(<<"A", "c">>)>>,
     <<Uri("o1"), "dv:fromFramework", Lit(<<"ESCO">>)>>,
     <<Uri("o2"), "rdfs:label", Lit(<<"e">>)>>,
     <<Uri("o2"), "dcterms:description", Lit(<<"d">>)>>,
     <<Uri("o3"), "rdfs:label", Lit(<<"a", "c">>)>>,
     <<Uri("s1"), "rdfs:label", Lit(<<"b">>)>>,
     <<Uri("s2"), "rdfs:label", Lit(<<"d", "e">>)>>,
     <<Uri("s3"), "rdfs:label", Lit(<<"b", "d">>)>>,
     <<Uri("s4"), "rdfs:label", Lit(<<"B">>)>>,
     <<Uri("s1"), "rdf:type", Uri("esco:Skill")>>,
     <<Uri("s2"), "rdf:type", Uri("esco:Skill")>>,
     <<Uri("s3"), "rdf:type", Uri("dv:Skill")>>,
     <<Uri("s4"), "rdf:type", Uri("dv:Skill")>>}

\* the loaded stores the service is asked about
QueryStores ==
    {QueryFixedTriples
        \cup {<<Uri("o1"), l[1], Uri(l[2])>> : l \in L1}
        \cup {<<Uri("o2"), l[1], Uri(l[2])>> : l \in L2}
        \cup more :
     L1 \in LinkSets("o1"), L2 \in LinkSets("o2"),
     more \in {{}, {<<Uri("o1"), "dv:hasImportance", IntLit(2)>>},
                   {<<Uri("o2"), "rdfs:label", Lit(<<"e", "e">>)>>}}}

\* what callers pass as keyword or occupation name
Keywords == {<<"A">>, <<"e">>, <<"z">>}

\* one term of a solution in the SPARQL JSON results format
TermBinding(term) ==
    IF Head(term) = "bnode" THEN [type |-> "bnode", value |-> Tail(term)]
    ELSE IF IsURIRef(term) THEN [type |-> "uri", value |-> term]
    ELSE [type |-> "literal", value |-> LitValue(term)]

\* a variable the solution leaves unbound
Unbound == [type |-> "unbound", value |-> <<>>]

\* the JSON binding of a solution: unbound variables are left out
Solution(sol) == [k \in {v \in DOMAIN sol : sol[v] # Unbound} |-> sol[k]]

\* the objects of s and p, or one unbound solution of the OPTIONAL
OptionalValues(g, s, p) ==
    LET objs == {t[3] : t \in {x \in g : x[1] = s /\ x[2] = p}}
    IN  IF objs = {} THEN {Unbound} ELSE {TermBinding(o) : o \in objs}

\* CONTAINS(s, sub)
Contains(s, sub) ==
    \E i \in 0..(Len(s) - Len(sub)) : SubSeq(s, i + 1, i + Len(sub)) = sub

\* the solutions of get_occupation_by_label(occupation_label)
OccupationByLabel(g, occupation_label) ==
    UNION {
        {Solution([occupation  |-> TermBinding(t[1]),
                   label       |-> TermBinding(t[3]),
                   description |-> d,
                   framework   |-> f]) :
            d \in OptionalValues(g, t[1], "dcterms:description"),
            f \in OptionalValues(g, t[1], "dv:fromFramework")} :
        t \in {x \in g : /\ x[2] = "rdfs:label"
                         /\ Contains(Lower(LitValue(x[3])), Lower(occupation_label))}}

\* the IF chain of get_skills_for_occupation's BIND
SkillTypeOf(relation) ==
    IF relation = "esco:hasEssentialSkill" THEN <<"essential">>
    ELSE IF relation = "esco:hasOptionalSkill" THEN <<"optional">>
    ELSE IF relation = "onet:requiresSkill" THEN <<"required">>
    ELSE IF relation = "sg:requiresSkill" THEN <<"required">>
    ELSE <<"unknown">>

\* How a query engine evaluates OPTIONAL { BIND(IF(?relation = ...)) }:
\* "substituted" evaluates the group with the bindings of the pattern before
\* it, "strict" evaluates the group on its own (SPARQL 1.1 algebra), where
\* ?relation is unbound, the IF raises and ?skillType stays unbound.
Engines == {"strict", "substituted"}

\* the solutions of get_skills_for_occupation(occupation_uri)
SkillsForOccupation(g, engine, occupation_uri) ==
    UNION {
        {Solution([skill      |-> TermBinding(t[3]),
                   skillLabel |-> TermBinding(l[3]),
                   skillType  |-> IF engine = "substituted"
                                     THEN [type |-> "literal", value |-> SkillTypeOf(t[2])]
                                     ELSE Unbound,
                   importance |-> i]) :
            l \in {x \in g : x[1] = t[3] /\ x[2] = "rdfs:label"},
            i \in OptionalValues(g, occupation_uri, "dv:hasImportance")} :
        t \in {x \in g : x[1] = occupation_uri /\ x[2] \in SkillPredicates}}

\* the solutions of find_similar_occupations(occupation_uri, min_common_skills)
SharedSkills(g, occupation_uri, other) ==
    {t[3] : t \in {x \in g : /\ x[1] = occupation_uri /\ x[2] \in SkillPredicates
                             /\ \E y \in g : /\ y[1] = other /\ y[3] = x[3]
                                             /\ y[2] \in SkillPredicates}}

SimilarOccupations(g, occupation_uri, min_common_skills) ==
    {Solution([similarOcc   |-> TermBinding(t[1]),
               occLabel     |-> TermBinding(t[3]),
               commonSkills |-> [type  |-> "literal",
                                 value |-> <<Digits[Cardinality(
                                               SharedSkills(g, occupation_uri, t[1]))]>>]]) :
        t \in {x \in g : /\ x[2] = "rdfs:label" /\ x[1] # occupation_uri
                         /\ SharedSkills(g, occupation_uri, x[1]) # {}
                         /\ Cardinality(SharedSkills(g, occupation_uri, x[1]))
                               >= min_common_skills}}

\* the solutions of search_skills_by_keyword(keyword); the FILTER is an
\* error, and so false, when the label does not match and ?description is
\* unbound
SkillsByKeyword(g, keyword) ==
    UNION {
        {Solution([skill       |-> TermBinding(t[1]),
                   skillLabel  |-> TermBinding(t[3]),
                   description |-> d,
                   framework   |-> f]) :
            d \in {x \in OptionalValues(g, t[1], "dcterms:description") :
                      \/ Contains(Lower(LitValue(t[3])), Lower(keyword))
                      \/ x # Unbound /\ Contains(Lower(x.value), Lower(keyword))},
            f \in OptionalValues(g, t[1], "dv:fromFramework")} :
        t \in {x \in g : /\ x[2] = "rdfs:label"
                         /\ \E c \in {Uri("esco:Skill"), Uri("dv:Skill")} :
                               <<x[1], "rdf:type", c>> \in g}}

\* the IF chain of get_occupations_for_skill's BIND
RequiredSkillTypeOf(relation) ==
    IF relation = "esco:hasEssentialSkill" THEN <<"essential">>
    ELSE IF relation = "esco:hasOptionalSkill" THEN <<"optional">>
    ELSE <<"required">>

\* the solutions of get_occupations_for_skill(skill_label)
OccupationsForSkill(g, skill_label) ==
    UNION {
        {Solution([occupation |-> TermBinding(t[1]),
                   occLabel   |-> TermBinding(l[3]),
                   skillType  |-> [type |-> "literal",
                                   value |-> RequiredSkillTypeOf(t[2])]]) :
            l \in {x \in g : x[1] = t[1] /\ x[2] = "rdfs:label"}} :
        t \in {x \in g : /\ x[2] \in SkillPredicates
                         /\ \E k \in g : /\ k[1] = x[3] /\ k[2] = "rdfs:label"
                                         /\ Lower(LitValue(k[3])) = Lower(skill_label)}}

\* code points of the characters, for ORDER BY
CharRank(c) ==
    IF c = "A" THEN 65 ELSE IF c = "B" THEN 66 ELSE IF c = "a" THEN 97
    ELSE IF c = "b" THEN 98 ELSE IF c = "c" THEN 99 ELSE IF c = "d" THEN 100
    ELSE IF c = "e" THEN 101 ELSE IF c = "essential" THEN 101
    ELSE IF c = "optional" THEN 111 ELSE IF c = "required" THEN 114 ELSE 122

RECURSIVE StrLess(_, _)
StrLess(a, b) ==
    IF b = <<>> THEN FALSE
    ELSE IF a = <<>> THEN TRUE
    ELSE IF CharRank(Head(a)) # CharRank(Head(b)) THEN CharRank(Head(a)) < CharRank(Head(b))
    ELSE StrLess(Tail(a), Tail(b))

\* the number a numeric binding stands for, 0 when the variable is unbound
NumberOf(sol, var) ==
    IF var \notin DOMAIN sol THEN 0
    ELSE CHOOSE n \in 1..Len(Digits) : Digits[n] = sol[var].value[1]

\* ORDER BY DESC(?importance) ?skillLabel
InSkillOrder(a, b) ==
    \/ NumberOf(a, "importance") > NumberOf(b, "importance")
    \/ /\ NumberOf(a, "importance") = NumberOf(b, "importance")
       /\ ~StrLess(b["skillLabel"].value, a["skillLabel"].value)

\* ORDER BY DESC(?commonSkills)
InSimilarOrder(a, b) == NumberOf(a, "commonSkills") >= NumberOf(b, "commonSkills")

\* ORDER BY ?skillType ?occLabel; the skill types are "essential",
\* "optional" and "required"
InOccupationOrder(a, b) ==
    \/ StrLess(<<a["skillType"].value[1]>>, <<b["skillType"].value[1]>>)
    \/ /\ a["skillType"] = b["skillType"]
       /\ ~StrLess(b["occLabel"].value, a["occLabel"].value)

\* the ORDER BY clauses of the queries
OccupationOrder == "?skillType ?occLabel"
SkillOrder == "DESC(?importance) ?skillLabel"
SimilarOrder == "DESC(?commonSkills)"
AnyOrder == "none"

\* a may come before b under the clause; without ORDER BY the store yields
\* the solutions in any order
InOrder(order, a, b) ==
    IF order = SkillOrder THEN InSkillOrder(a, b)
    ELSE IF order = SimilarOrder THEN InSimilarOrder(a, b)
    ELSE IF order = OccupationOrder THEN InOccupationOrder(a, b)
    ELSE TRUE

\* LIMIT n
Limit(rows, n) == SubSeq(rows, 1, IF Len(rows) < n THEN Len(rows) ELSE n)

\* the answers the store can give: its solutions in an order the query's
\* ORDER BY allows, cut at the query's LIMIT
StoreAnswers(solutions, order, limit) ==
    {Limit(q, limit) :
        q \in {o \in Orders(solutions) :
                  \A i, j \in 1..Len(o) : i < j => InOrder(order, o[i], o[j])}}

\* format_sparql_results
FormatSparqlResults(bindings) ==
    [i \in 1..Len(bindings) |-> [k \in DOMAIN bindings[i] |-> bindings[i][k].value]]

\* what _execute_query can return: the formatted results of an answer, or
\* [] when the request raised, as every request does while the store is
\* unreachable
ExecuteQuery(answers) ==
    {<<>>} \cup (IF qreachable THEN {FormatSparqlResults(a) : a \in answers} ELSE {})

\* dict.get(key, default)
Get(row, key, default) == IF key \in DOMAIN row THEN row[key] ELSE default

\* the loop of search_occupations: [seen, unique_results]
RECURSIVE UniqueByLabel(_, _)
UniqueByLabel(acc, results) ==
    IF results = <<>> THEN acc
    ELSE LET result == Head(results)
             label  == Lower(Get(result, "label", <<>>))
         IN  IF label \notin acc.seen
                THEN UniqueByLabel([seen |-> acc.seen \cup {label},
                                    unique_results |-> Append(acc.unique_results, result)],
                                   Tail(results))
                ELSE UniqueByLabel(acc, Tail(results))

\* search_occupations, given what its query returned
SearchOccupations(results) ==
    UniqueByLabel([seen |-> {}, unique_results |-> <<>>], results).unique_results

\* the records of results whose skillType is skill_type
RECURSIVE OfType(_, _)
OfType(results, skill_type) ==
    IF results = <<>> THEN <<>>
    ELSE IF Get(Head(results), "skillType", <<"required">>) = skill_type
            THEN <<Head(results)>> \o OfType(Tail(results), skill_type)
            ELSE OfType(Tail(results), skill_type)

\* get_occupation_skills, given what its query returned
GetOccupationSkills(results) ==
    [essential |-> OfType(results, <<"essential">>),
     optional  |-> OfType(results, <<"optional">>),
     required  |-> OfType(results, <<"required">>),
     all       |-> results]

\* one _execute_query of a call: the query and what it returned
Executed(query, rows) == [query |-> query, rows |-> rows]

\* a not-found answer that carries found = True
NotFoundAsFound(message) == [found |-> TRUE, message |-> message]

\* {'found': False, 'message': ...}
NotFound(message) == [found |-> FALSE, message |-> message]

\* the solutions of get_occupation_salary_data(occupation_uri): one for each
\* label of the occupation, the stores hold no salary triple
SalaryData(g, occupation_uri) ==
    {Solution([occupation |-> TermBinding(occupation_uri),
               label      |-> TermBinding(t[3]),
               medianSalary |-> Unbound, salary10th |-> Unbound,
               salary90th |-> Unbound, jobOutlook |-> Unbound]) :
        t \in {x \in g : x[1] = occupation_uri /\ x[2] = "rdfs:label"}}

\* get_occupation_complete_profile: the runs it can take, each with the
\* profile it returns and what its search and its skills query returned.
\* The stores hold no knowledge, ability or technology triple, so these
\* three queries return [] whether they are answered or not.
ProfileRuns(g, engine, occupation_label) ==
    UNION {
        LET search      == Executed(<<"get_occupation_by_label", occupation_label>>, found_rows)
            occupations_ == SearchOccupations(found_rows)
        IN  IF occupations_ = <<>>
               THEN {[trace |-> <<search>>, profile |-> NotFound("No occupation found")]}
            ELSE LET occupation     == occupations_[1]
                     occupation_uri == Get(occupation, "occupation", <<>>)
                 IN  IF occupation_uri = <<>>
                        THEN {[trace |-> <<search>>,
                               profile |-> NotFound("Occupation URI not found")]}
                     ELSE {[trace |-> <<search,
                                        Executed(<<"get_skills_for_occupation",
                                                   occupation_uri>>, skill_rows)>>,
                            profile |-> [found |-> TRUE,
                                         occupation |-> occupation,
                                         skills |-> GetOccupationSkills(skill_rows),
                                         knowledge |-> <<>>,
                                         abilities |-> <<>>,
                                         technologies |-> <<>>,
                                         salary_data |-> salary,
                                         similar_occupations |-> similar]] :
                             skill_rows \in ExecuteQuery(StoreAnswers(
                                 SkillsForOccupation(g, engine, occupation_uri),
                                 SkillOrder, 1000)),
                             salary \in ExecuteQuery(StoreAnswers(
                                 SalaryData(g, occupation_uri), AnyOrder, 1000)),
                             similar \in ExecuteQuery(StoreAnswers(
                                 SimilarOccupations(g, occupation_uri, 3),
                                 SimilarOrder, 20))} :
        found_rows \in ExecuteQuery(StoreAnswers(OccupationByLabel(g, occupation_label),
                                                AnyOrder, 50))}

\* set(s.get('skillLabel', '').lower()
\*     for s in profile.get('skills', {}).get('all', []))
SkillLabels(profile) ==
    LET all == Get(Get(profile, "skills", [all |-> <<>>]), "all", <<>>)
    IN  {Lower(Get(all[i], "skillLabel", <<>>)) : i \in 1..Len(all)}

\* round(n / d * 100, 1) in tenths of a percent (ties to even)
RoundedPercentage(n, d) ==
    LET q == (1000 * n) \div d
        r == (1000 * n) % d
    IN  IF 2 * r > d THEN q + 1
        ELSE IF 2 * r = d THEN q + (q % 2)
        ELSE q

\* calculate_skill_gap with the obsolete skills taken from the target side
CalculateSkillGapObsoleteOfTarget(current_profile, target_profile) ==
    IF ~current_profile.found \/ ~target_profile.found
       THEN {[success |-> FALSE, message |-> "One or both occupations not found"]}
    ELSE LET current_skills      == SkillLabels(current_profile)
             target_skills       == SkillLabels(target_profile)
             skills_to_acquire   == target_skills \ current_skills
             transferable_skills == current_skills \cap target_skills
             obsolete_skills     == target_skills \ current_skills
         IN  {[success |-> TRUE,
               current_occupation |-> Get(current_profile, "occupation", <<"None">>),
               target_occupation  |-> Get(target_profile, "occupation", <<"None">>),
               transferable_skills |-> t,
               skills_to_acquire   |-> a,
               obsolete_skills     |-> o,
               skill_overlap_percentage |->
                   IF target_skills # {}
                      THEN RoundedPercentage(Cardinality(transferable_skills),
                                             Cardinality(target_skills))
                      ELSE 0,
               total_current_skills |-> Cardinality(current_skills),
               total_target_skills  |-> Cardinality(target_skills),
               total_to_acquire     |-> Cardinality(skills_to_acquire)] :
              t \in Orders(transferable_skills),
              a \in Orders(skills_to_acquire),
              o \in Orders(obsolete_skills)}

\* calculate_skill_gap, given the two profiles; list(set) yields the
\* elements in any order
CalculateSkillGap(current_profile, target_profile) ==
    IF ~current_profile.found \/ ~target_profile.found
       THEN {[success |-> FALSE, message |-> "One or both occupations not found"]}
    ELSE LET current_skills      == SkillLabels(current_profile)
             target_skills       == SkillLabels(target_profile)
             skills_to_acquire   == target_skills \ current_skills
             transferable_skills == current_skills \cap target_skills
             obsolete_skills     == current_skills \ target_skills
         IN  {[success |-> TRUE,
               current_occupation |-> Get(current_profile, "occupation", <<"None">>),
               target_occupation  |-> Get(target_profile, "occupation", <<"None">>),
               transferable_skills |-> t,
               skills_to_acquire   |-> a,
               obsolete_skills     |-> o,
               skill_overlap_percentage |->
                   IF target_skills # {}
                      THEN RoundedPercentage(Cardinality(transferable_skills),
                                             Cardinality(target_skills))
                      ELSE 0,
               total_current_skills |-> Cardinality(current_skills),
               total_target_skills  |-> Cardinality(target_skills),
               total_to_acquire     |-> Cardinality(skills_to_acquire)] :
              t \in Orders(transferable_skills),
              a \in Orders(skills_to_acquire),
              o \in Orders(obsolete_skills)}

\* no call is in progress
NoQueryCall == [op |-> "none", args |-> <<>>, trace |-> <<>>]

\* the service is created on a loaded store
QueryInit ==
    /\ qstore \in QueryStores
    /\ qengine \in Engines
    /\ qreachable \in BOOLEAN
    /\ qcall = NoQueryCall
    /\ qresult = <<>>

\* a call of search_occupations(keyword)
CallSearchOccupations ==
    /\ qcall = NoQueryCall
    /\ \E keyword \in Keywords :
       \E results \in ExecuteQuery(StoreAnswers(OccupationByLabel(qstore, keyword),
                                                AnyOrder, 50)) :
           /\ qcall' = [op |-> "search_occupations", args |-> <<keyword>>,
                        trace |-> <<Executed(<<"get_occupation_by_label", keyword>>,
                                             results)>>]
           /\ qresult' = SearchOccupations(results)
    /\ UNCHANGED <<qstore, qengine, qreachable>>

\* a call of get_occupation_skills(occupation_uri)
CallGetOccupationSkills ==
    /\ qcall = NoQueryCall
    /\ \E name \in QueryOccupations \cup QuerySkills :
       \E results \in ExecuteQuery(StoreAnswers(
                          SkillsForOccupation(qstore, qengine, Uri(name)),
                          SkillOrder, 1000)) :
           /\ qcall' = [op |-> "get_occupation_skills", args |-> <<Uri(name)>>,
                        trace |-> <<Executed(<<"get_skills_for_occupation", Uri(name)>>,
                                             results)>>]
           /\ qresult' = GetOccupationSkills(results)
    /\ UNCHANGED <<qstore, qengine, qreachable>>

\* a call of get_occupation_complete_profile(occupation_label)
CallGetOccupationCompleteProfile ==
    /\ qcall = NoQueryCall
    /\ \E occupation_label \in Keywords :
       \E run \in ProfileRuns(qstore, qengine, occupation_label) :
           /\ qcall' = [op |-> "get_occupation_complete_profile",
                        args |-> <<occupation_label>>, trace |-> run.trace]
           /\ qresult' = run.profile
    /\ UNCHANGED <<qstore, qengine, qreachable>>

\* a call of calculate_skill_gap(current_occupation, target_occupation)
CallCalculateSkillGap ==
    /\ qcall = NoQueryCall
    /\ \E current_occupation \in Keywords, target_occupation \in Keywords :
       \E current_run \in ProfileRuns(qstore, qengine, current_occupation),
          target_run \in ProfileRuns(qstore, qengine, target_occupation) :
       \E gap \in CalculateSkillGap(current_run.profile, target_run.profile) :
           /\ qcall' = [op |-> "calculate_skill_gap",
                        args |-> <<current_occupation, target_occupation>>,
                        trace |-> <<current_run.trace, target_run.trace>>]
           /\ qresult' = gap
    /\ UNCHANGED <<qstore, qengine, qreachable>>

\* min_common_skills when the caller gives no value
DefaultMinCommonSkills == 5

\* what callers pass as min_common_skills: nothing, or a number
MinCommonSkillsArgs == {<<>>, <<1>>, <<2>>}

\* occ['similarity_percentage'] = ..., in tenths of a percent
WithSimilarity(occ, total_skills) ==
    [k \in DOMAIN occ \cup {"similarity_percentage"} |->
        IF k # "similarity_percentage" THEN occ[k]
        ELSE IF total_skills > 0
                THEN RoundedPercentage(
                         IF "commonSkills" \in DOMAIN occ
                            THEN CHOOSE n \in 1..Len(Digits) :
                                     Digits[n] = occ["commonSkills"][1]
                            ELSE 0,
                         total_skills)
                ELSE 0]

\* find_similar_occupations(occupation_label, min_common_skills): the runs
\* it can take, each with what its search and its similarity query
\* returned and the list it returns; get_occupation_skills is called once
\* for every row to count the skills of the occupation
SimilarRuns(g, engine, occupation_label, min_common_skills) ==
    UNION {
        LET search       == Executed(<<"get_occupation_by_label", occupation_label>>,
                                     found_rows)
            occupations_ == SearchOccupations(found_rows)
        IN  IF occupations_ = <<>> THEN {[trace |-> <<search>>, similar |-> <<>>]}
            ELSE LET occupation_uri == Get(occupations_[1], "occupation", <<>>)
                     totals == {Len(GetOccupationSkills(r).all) :
                                   r \in ExecuteQuery(StoreAnswers(
                                       SkillsForOccupation(g, engine, occupation_uri),
                                       SkillOrder, 1000))}
                 IN  IF occupation_uri = <<>> THEN {[trace |-> <<search>>, similar |-> <<>>]}
                     ELSE UNION {
                            {[trace |-> <<search,
                                          Executed(<<"find_similar_occupations",
                                                     occupation_uri, min_common_skills>>,
                                                   similar)>>,
                              similar |-> [i \in 1..Len(similar) |->
                                              WithSimilarity(similar[i], total[i])]] :
                                total \in [1..Len(similar) -> totals]} :
                            similar \in ExecuteQuery(StoreAnswers(
                                SimilarOccupations(g, occupation_uri, min_common_skills),
                                SimilarOrder, 20))} :
        found_rows \in ExecuteQuery(StoreAnswers(OccupationByLabel(g, occupation_label),
                                                AnyOrder, 50))}

\* a call of find_similar_occupations(occupation_label[, min_common_skills])
CallFindSimilarOccupations ==
    /\ qcall = NoQueryCall
    /\ \E occupation_label \in Keywords, n \in MinCommonSkillsArgs :
       \E run \in SimilarRuns(qstore, qengine, occupation_label,
                              IF n = <<>> THEN DefaultMinCommonSkills ELSE n[1]) :
           /\ qcall' = [op |-> "find_similar_occupations",
                        args |-> <<occupation_label>> \o n, trace |-> run.trace]
           /\ qresult' = run.similar
    /\ UNCHANGED <<qstore, qengine, qreachable>>

\* what callers pass as skill keyword or skill name
SkillKeywords == {<<"b">>, <<"z">>}

\* a call of find_skills_by_keyword(keyword)
CallFindSkillsByKeyword ==
    /\ qcall = NoQueryCall
    /\ \E keyword \in SkillKeywords :
       \E results \in ExecuteQuery(StoreAnswers(SkillsByKeyword(qstore, keyword),
                                                AnyOrder, 50)) :
           /\ qcall' = [op |-> "find_skills_by_keyword", args |-> <<keyword>>,
                        trace |-> <<Executed(<<"search_skills_by_keyword", keyword>>,
                                             results)>>]
           /\ qresult' = results
    /\ UNCHANGED <<qstore, qengine, qreachable>>

\* a call of get_occupations_requiring_skill(skill_name)
CallGetOccupationsRequiringSkill ==
    /\ qcall = NoQueryCall
    /\ \E skill_name \in SkillKeywords :
       \E results \in ExecuteQuery(StoreAnswers(OccupationsForSkill(qstore, skill_name),
                                                OccupationOrder, 100)) :
           /\ qcall' = [op |-> "get_occupations_requiring_skill", args |-> <<skill_name>>,
                        trace |-> <<Executed(<<"get_occupations_for_skill", skill_name>>,
                                             results)>>]
           /\ qresult' = results
    /\ UNCHANGED <<qstore, qengine, qreachable>>

\* the caller has the result; the service is ready for the next call
Return ==
    /\ qcall # NoQueryCall
    /\ qcall' = NoQueryCall
    /\ qresult' = <<>>
    /\ UNCHANGED <<qstore, qengine, qreachable>>

QueryNext ==
    \/ Return
    \/ CallSearchOccupations
    \/ CallGetOccupationSkills
    \/ CallGetOccupationCompleteProfile
    \/ CallCalculateSkillGap
    \/ CallFindSimilarOccupations
    \/ CallFindSkillsByKeyword
    \/ CallGetOccupationsRequiringSkill

QuerySpecInit ==
    QueryInit /\ NormIdle /\ MapIdle /\ DedupIdle /\ LoadIdle /\ BulkIdle /\ ExtraIdle

QuerySpecNext ==
    QueryNext /\ UNCHANGED <<normVars, mapVars, dedupVars, rerunVars, loadVars, storeVars,
                             bulkVars, extraVars>>

\* calls of the Query Service on a loaded store
SpecQuery == QuerySpecInit /\ [][QuerySpecNext]_vars

(***************************************************************************)
(* Text of the queries built from caller values                            *)
(* (sparql_queries.py KnowledgeGraphQueries, sfia_km_service.py)           *)
(*                                                                         *)
(* A query text is a sequence of tokens: the pieces of the f-string        *)
(* template are whole tokens, the delimiters of string literals and IRIs   *)
(* and the characters of the interpolated value are one token each.        *)
(***************************************************************************)
MaxTextLen == 2

\* characters callers can send: a letter, a space, a hyphen, and the
\* delimiters of the query language
TextChars == {"a", " ", "-", "\"", ">", "}"}

TextInputs == UNION {[1..n -> TextChars] : n \in 0..MaxTextLen}

\* re.sub(r'[^a-zA-Z0-9\s\-]', '', keyword).strip()
SafeKeyword(keyword) ==
    Strip(SelectSeq(keyword, LAMBDA c : c \in {"a", "A", "b", "B", "c", "d", "e", "z",
                                               "1", "2", "3", "4", "5", "6", "7", "8",
                                               "9", " ", "-"}))

\* KnowledgeGraphQueries.get_occupation_by_label
GetOccupationByLabel(occupation_label) ==
    <<"SELECT DISTINCT ?occupation ?label ?description ?framework", "WHERE", "{",
      "?occupation rdfs:label ?label .",
      "OPTIONAL { ?occupation dcterms:description ?description }",
      "OPTIONAL { ?occupation dv:fromFramework ?framework }",
      "FILTER(CONTAINS(LCASE(STR(?label)), LCASE(", "\"">>
    \o occupation_label
    \o <<"\"", ")))", "}", "LIMIT 50">>

\* KnowledgeGraphQueries.get_skills_for_occupation
GetSkillsForOccupation(occupation_uri) ==
    <<"SELECT DISTINCT ?skill ?skillLabel ?skillType ?importance ?level", "WHERE", "{",
      "<">> \o occupation_uri \o <<">", "?relation ?skill .",
      "FILTER(?relation IN (...))", "?skill rdfs:label ?skillLabel .",
      "OPTIONAL { BIND(... AS ?skillType) }",
      "OPTIONAL {", "<">> \o occupation_uri \o <<">", "dv:hasImportance ?importance", "}",
      "OPTIONAL { ?skill dv:skillLevel ?level }", "}",
      "ORDER BY ?skillType ?skillLabel">>

\* KnowledgeGraphQueries.search_skills_by_keyword
SearchSkillsByKeyword(keyword) ==
    <<"SELECT DISTINCT ?skill ?skillLabel ?skillType ?description", "WHERE", "{",
      "?skill rdfs:label ?skillLabel .", "?skill a ?skillType .",
      "OPTIONAL { ?skill dcterms:description ?description }",
      "FILTER(?skillType IN (esco:Skill, onet:Skill, dv:Skill))", "FILTER(",
      "CONTAINS(LCASE(STR(?skillLabel)), LCASE(", "\"">> \o keyword \o <<"\"", ")) ||",
      "CONTAINS(LCASE(STR(?description)), LCASE(", "\"">> \o keyword \o <<"\"", "))",
      ")", "}", "LIMIT 50">>

\* KnowledgeGraphQueries.get_occupations_for_skill
GetOccupationsForSkill(skill_label) ==
    <<"SELECT DISTINCT ?occupation ?occLabel ?skillType", "WHERE", "{",
      "?skill rdfs:label ?skillLabel .",
      "FILTER(LCASE(STR(?skillLabel)) = LCASE(", "\"">> \o skill_label \o <<"\"", "))",
      "?occupation ?relation ?skill .", "?occupation rdfs:label ?occLabel .",
      "FILTER(?relation IN (...))", "BIND(... AS ?skillType)", "}",
      "ORDER BY ?skillType ?occLabel", "LIMIT 100">>

\* the query of SFIAKnowledgeService._basic_search_skills for a keyword
\* that is already made safe
BasicSearchSkills(safe_keyword) ==
    <<"SELECT DISTINCT ?skill ?code ?label ?category ?description", "WHERE", "{",
      "?skill a sfia:Skill ; skos:notation ?code ; rdfs:label ?label .",
      "OPTIONAL { ?skill sfia:skillCategory ?categoryUri . ?categoryUri rdfs:label ?category }",
      "OPTIONAL { ?skill sfia:skillDescription ?description }",
      "OPTIONAL { ?skill sfia:skillNotes ?notes }", "FILTER (",
      "regex(?label,", "\"">> \o safe_keyword \o <<"\"", ", 'i') ||",
      "regex(?description,", "\"">> \o safe_keyword \o <<"\"", ", 'i') ||",
      "regex(?notes,", "\"">> \o safe_keyword \o <<"\"", ", 'i') ||",
      "regex(?code,", "\"">> \o safe_keyword \o <<"\"", ", 'i')",
      ")", "}", "ORDER BY ?label", "LIMIT 50">>

\* What a SPARQL parser makes of a text: a string literal runs from a
\* double quote to the next one and an IRI from '<' to the next '>', and
\* whatever stands between the delimiters is content, not structure.
\* mode is "query", "string" or "iri".
RECURSIVE Structure(_, _)
Structure(text, mode) ==
    IF text = <<>> THEN (IF mode = "query" THEN <<>> ELSE <<"unterminated">>)
    ELSE IF mode = "query"
         THEN IF Head(text) = "\"" THEN <<"STRING">> \o Structure(Tail(text), "string")
              ELSE IF Head(text) = "<" THEN <<"IRI">> \o Structure(Tail(text), "iri")
              ELSE <<Head(text)>> \o Structure(Tail(text), "query")
    ELSE IF mode = "string"
         THEN Structure(Tail(text), IF Head(text) = "\"" THEN "query" ELSE "string")
    ELSE Structure(Tail(text), IF Head(text) = ">" THEN "query" ELSE "iri")

\* the tokens of a text that stand inside a string literal or an IRI
RECURSIVE Embedded(_, _)
Embedded(text, mode) ==
    IF text = <<>> THEN {}
    ELSE IF mode = "query"
         THEN Embedded(Tail(text), IF Head(text) = "\"" THEN "string"
                                   ELSE IF Head(text) = "<" THEN "iri" ELSE "query")
    ELSE IF (mode = "string" /\ Head(text) = "\"") \/ (mode = "iri" /\ Head(text) = ">")
         THEN Embedded(Tail(text), "query")
    ELSE {Head(text)} \cup Embedded(Tail(text), mode)

TextInit == TextIdle

\* KnowledgeGraphService.search_occupations builds its query
BuildSearchOccupations ==
    \E keyword \in TextInputs :
        /\ tcall' = [op |-> "search_occupations", arg |-> keyword]
        /\ ttext' = GetOccupationByLabel(keyword)

\* KnowledgeGraphService.get_occupation_skills builds its query
BuildGetOccupationSkills ==
    \E occupation_uri \in TextInputs :
        /\ tcall' = [op |-> "get_occupation_skills", arg |-> occupation_uri]
        /\ ttext' = GetSkillsForOccupation(occupation_uri)

\* KnowledgeGraphService.find_skills_by_keyword builds its query
BuildFindSkillsByKeyword ==
    \E keyword \in TextInputs :
        /\ tcall' = [op |-> "find_skills_by_keyword", arg |-> keyword]
        /\ ttext' = SearchSkillsByKeyword(keyword)

\* KnowledgeGraphService.get_occupations_requiring_skill builds its query
BuildGetOccupationsRequiringSkill ==
    \E skill_name \in TextInputs :
        /\ tcall' = [op |-> "get_occupations_requiring_skill", arg |-> skill_name]
        /\ ttext' = GetOccupationsForSkill(skill_name)

\* SFIAKnowledgeService._basic_search_skills: no query for a keyword of
\* which nothing is left
BuildBasicSearchSkills ==
    \E keyword \in TextInputs :
        /\ tcall' = [op |-> "_basic_search_skills", arg |-> keyword]
        /\ ttext' = IF SafeKeyword(keyword) = <<>> THEN <<>>
                    ELSE BasicSearchSkills(SafeKeyword(keyword))

TextNext ==
    \/ BuildSearchOccupations
    \/ BuildGetOccupationSkills
    \/ BuildFindSkillsByKeyword
    \/ BuildGetOccupationsRequiringSkill
    \/ BuildBasicSearchSkills

TextSpecInit ==
    /\ TextInit /\ NormIdle /\ MapIdle /\ DedupIdle /\ LoadIdle /\ BulkIdle /\ QueryIdle
    /\ SfiaIdle /\ CallersIdle

TextSpecNext ==
    TextNext /\ UNCHANGED <<normVars, mapVars, dedupVars, rerunVars, loadVars, storeVars,
                            bulkVars, queryVars, sfiaVars, callerVars>>

\* the queries the services build from what callers send
SpecText == TextSpecInit /\ [][TextSpecNext]_vars

(***************************************************************************)
(* SFIAKnowledgeService, get_sfia_service and the health checks            *)
(* (sfia_km_service.py, app.py, kg_routes.py)                              *)
(***************************************************************************)
MaxInstances == 2

\* the Fuseki endpoints a service can be constructed for
Endpoints == {"sfia", "other"}

\* the endpoint of the module-level KnowledgeGraphService of kg_routes.py
KgEndpoint == "sfia"

\* the threads of the backend that call get_sfia_service
Threads == {1, 2}

\* how many triples the store can hold
TripleCounts == {0, 2}

\* SFIAKnowledgeService.__init__ with KG_ENABLED at its default: the
\* instance, and the class flag and the endpoints validated after it.
\* _validate_connection runs only while the class flag is not set.
NewService(fuseki_url) ==
    IF connection_validated
       THEN [instance |-> [fuseki_url |-> fuseki_url, enabled |-> TRUE],
             flag |-> connection_validated, validated |-> validated]
    ELSE IF fuseki_url \in sup
       THEN [instance |-> [fuseki_url |-> fuseki_url, enabled |-> TRUE],
             flag |-> TRUE, validated |-> validated \cup {fuseki_url}]
    ELSE [instance |-> [fuseki_url |-> fuseki_url, enabled |-> FALSE],
          flag |-> connection_validated, validated |-> validated]

\* SFIAKnowledgeService.is_connected
IsConnected(self, flag) == IF ~self.enabled THEN FALSE ELSE flag

\* SFIAKnowledgeService._execute_query of a COUNT query: the bindings
SfiaExecuteCount(self, reachable, count) ==
    IF ~self.enabled THEN <<>>
    ELSE IF self.fuseki_url \in reachable THEN <<[count |-> count]>>
    ELSE <<>>

\* SFIAKnowledgeService.get_knowledge_graph_stats: a count that cannot be
\* read is 0
GetKnowledgeGraphStats(self, reachable, count) ==
    IF ~self.enabled THEN [connected |-> FALSE, total_triples |-> 0]
    ELSE LET result == SfiaExecuteCount(self, reachable, count)
         IN  [connected |-> TRUE,
              total_triples |-> IF result = <<>> THEN 0 ELSE result[1].count]

\* what GET /api/health/kg answers (app.py kg_health_check)
KgHealthReport(self, flag, reachable, count) ==
    IF IsConnected(self, flag)
       THEN [op |-> "kg_health_check", code |-> 200, status |-> "healthy",
             connected |-> TRUE,
             stats |-> GetKnowledgeGraphStats(self, reachable, count)]
       ELSE [op |-> "kg_health_check", code |-> 503, status |-> "unavailable",
             connected |-> FALSE, stats |-> <<>>]

\* what GET /api/kg/health answers (kg_routes.py health_check): the COUNT
\* query has one row on every store that answers, and _execute_query
\* returns [] when the store does not
HealthReport(reachable) ==
    LET results == IF KgEndpoint \in reachable THEN <<[count |-> 0]>> ELSE <<>>
    IN  [op |-> "health_check", code |-> 200, status |-> "healthy",
         connected |-> Len(results) > 0]

SfiaInit ==
    /\ sup \in SUBSET Endpoints
    /\ striples \in TripleCounts
    /\ connection_validated = FALSE
    /\ instances = <<>>
    /\ service_instance = 0
    /\ spc = [t \in Threads |-> "idle"]
    /\ validated = {} /\ made = {} /\ handed = {}
    /\ sanswer = [op |-> "none"]

\* SFIAKnowledgeService(fuseki_url) constructed by a caller of its own
Construct ==
    \E fuseki_url \in Endpoints :
        /\ Len(instances) < MaxInstances
        /\ instances' = Append(instances, NewService(fuseki_url).instance)
        /\ connection_validated' = NewService(fuseki_url).flag
        /\ validated' = NewService(fuseki_url).validated
        /\ sanswer' = [op |-> "construct", instance |-> Len(instances) + 1]
        /\ UNCHANGED <<sup, striples, service_instance, spc, made, handed>>

\* get_sfia_service: if _service_instance is None
GetSfiaServiceCheck(t) ==
    /\ spc[t] = "idle"
    /\ spc' = [spc EXCEPT ![t] = IF service_instance = 0 THEN "create" ELSE "return"]
    /\ UNCHANGED <<sup, striples, connection_validated, instances, service_instance,
                   validated, made, handed, sanswer>>

\* get_sfia_service: _service_instance = SFIAKnowledgeService(fuseki_url, dataset)
GetSfiaServiceCreate(t) ==
    \E fuseki_url \in Endpoints :
        /\ spc[t] = "create"
        /\ Len(instances) < MaxInstances
        /\ instances' = Append(instances, NewService(fuseki_url).instance)
        /\ connection_validated' = NewService(fuseki_url).flag
        /\ validated' = NewService(fuseki_url).validated
        /\ service_instance' = Len(instances) + 1
        /\ made' = made \cup {Len(instances) + 1}
        /\ spc' = [spc EXCEPT ![t] = "return"]
        /\ UNCHANGED <<sup, striples, handed, sanswer>>

\* get_sfia_service: return _service_instance
GetSfiaServiceReturn(t) ==
    /\ spc[t] = "return"
    /\ handed' = handed \cup {service_instance}
    /\ sanswer' = [op |-> "get_sfia_service", thread |-> t, instance |-> service_instance]
    /\ spc' = [spc EXCEPT ![t] = "idle"]
    /\ UNCHANGED <<sup, striples, connection_validated, instances, service_instance,
                   validated, made>>

\* reset_service
ResetService ==
    /\ service_instance' = 0
    /\ connection_validated' = FALSE
    /\ validated' = {} /\ made' = {} /\ handed' = {}
    /\ sanswer' = [op |-> "reset_service"]
    /\ UNCHANGED <<sup, striples, instances, spc>>

\* a caller asks an instance it holds whether it is connected
CallIsConnected ==
    \E i \in 1..Len(instances) :
        /\ sanswer' = [op |-> "is_connected", instance |-> i,
                       value |-> IsConnected(instances[i], connection_validated)]
        /\ UNCHANGED <<sup, striples, connection_validated, instances, service_instance,
                       spc, validated, made, handed>>

\* GET /api/health/kg on the instance get_sfia_service holds
KgHealthCheck ==
    /\ service_instance # 0
    /\ sanswer' = KgHealthReport(instances[service_instance], connection_validated,
                                 sup, striples)
    /\ UNCHANGED <<sup, striples, connection_validated, instances, service_instance,
                   spc, validated, made, handed>>

\* GET /api/kg/health
HealthCheck ==
    /\ sanswer' = HealthReport(sup)
    /\ UNCHANGED <<sup, striples, connection_validated, instances, service_instance,
                   spc, validated, made, handed>>

\* an endpoint goes down or comes up
StoreChange ==
    \E e \in Endpoints :
        /\ sup' = IF e \in sup THEN sup \ {e} ELSE sup \cup {e}
        /\ sanswer' = [op |-> "none"]
        /\ UNCHANGED <<striples, connection_validated, instances, service_instance,
                       spc, validated, made, handed>>

SfiaNext ==
    \/ Construct
    \/ \E t \in Threads : GetSfiaServiceCheck(t)
    \/ \E t \in Threads : GetSfiaServiceCreate(t)
    \/ \E t \in Threads : GetSfiaServiceReturn(t)
    \/ ResetService
    \/ CallIsConnected
    \/ KgHealthCheck
    \/ HealthCheck
    \/ StoreChange

SfiaSpecInit ==
    /\ SfiaInit /\ NormIdle /\ MapIdle /\ DedupIdle /\ LoadIdle /\ BulkIdle /\ QueryIdle
    /\ TextIdle /\ CallersIdle

SfiaSpecNext ==
    SfiaNext /\ UNCHANGED <<normVars, mapVars, dedupVars, rerunVars, loadVars, storeVars,
                            bulkVars, queryVars, textVars, callerVars>>

\* the backend's SFIA service instances and health checks
SpecSfia == SfiaSpecInit /\ [][SfiaSpecNext]_vars

(***************************************************************************)
(* Concurrent callers of _execute_query on one service object              *)
(* (kg_service.py KnowledgeGraphService, sfia_km_service.py)               *)
(***************************************************************************)
MaxCallers == 2

Callers == 1..MaxCallers

\* the queries callers send
CallerQueries == {"q1", "q2"}

\* the service objects callers can share: a KnowledgeGraphService with its
\* endpoint and credentials, or a SFIAKnowledgeService with its endpoint
\* and enabled flag
Services ==
    [kind : {"kg"}, endpoint : {"unified", "missing"},
     credentials : {"admin", "wrong"}, enabled : {TRUE}]
    \cup [kind : {"sfia"}, endpoint : {"unified", "missing"},
          credentials : {"none"}, enabled : BOOLEAN]

\* what the store answers a request: the row of the query, or an error
\* (here no rows) for a dataset it does not have or credentials it rejects
StoreResponse(request) ==
    IF cup /\ request.endpoint = "unified" /\ request.credentials \in {"admin", "none"}
       THEN <<request.query>>
       ELSE <<>>

\* what a call of _execute_query returns when it runs alone
Alone(self, query) ==
    IF ~self.enabled THEN <<>>
    ELSE StoreResponse([endpoint |-> self.endpoint, credentials |-> self.credentials,
                        query |-> query])

\* one SPARQLWrapper kept for all calls
WrapperOfService(caller) == 0

\* sparql = SPARQLWrapper(...): every call makes a wrapper of its own
WrapperOf(caller) == caller

CallersInit ==
    /\ service \in Services
    /\ cup \in BOOLEAN
    /\ wrappers = [w \in {0} \cup Callers |-> [endpoint |-> "", credentials |-> "",
                                              query |-> ""]]
    /\ cpc = [c \in Callers |-> "idle"]
    /\ cquery = [c \in Callers |-> ""]
    /\ cresult = [c \in Callers |-> <<>>]

\* KnowledgeGraphService._execute_query: the wrapper is made and given the
\* query and the credentials
KgExecuteBegin(c) ==
    \E query \in CallerQueries :
        /\ service.kind = "kg" /\ cpc[c] = "idle"
        /\ cquery' = [cquery EXCEPT ![c] = query]
        /\ wrappers' = [wrappers EXCEPT ![WrapperOf(c)] =
                            [endpoint |-> service.endpoint,
                             credentials |-> service.credentials, query |-> query]]
        /\ cpc' = [cpc EXCEPT ![c] = "sending"]
        /\ cresult' = [cresult EXCEPT ![c] = <<>>]
        /\ UNCHANGED <<service, cup>>

\* SFIAKnowledgeService._execute_query: empty bindings when not enabled,
\* else the wrapper is made and given the query
SfiaExecuteBegin(c) ==
    \E query \in CallerQueries :
        /\ service.kind = "sfia" /\ cpc[c] = "idle"
        /\ cquery' = [cquery EXCEPT ![c] = query]
        /\ cresult' = [cresult EXCEPT ![c] = <<>>]
        /\ IF ~service.enabled
              THEN cpc' = [cpc EXCEPT ![c] = "done"] /\ UNCHANGED wrappers
              ELSE /\ cpc' = [cpc EXCEPT ![c] = "sending"]
                   /\ wrappers' = [wrappers EXCEPT ![WrapperOf(c)] =
                                       [endpoint |-> service.endpoint,
                                        credentials |-> service.credentials,
                                        query |-> query]]
        /\ UNCHANGED <<service, cup>>

\* sparql.query().convert(): the request is sent and the answer, or [] on
\* an exception, is the result of the call
ExecuteSend(c) ==
    /\ cpc[c] = "sending"
    /\ cresult' = [cresult EXCEPT ![c] = StoreResponse(wrappers[WrapperOf(c)])]
    /\ cpc' = [cpc EXCEPT ![c] = "done"]
    /\ UNCHANGED <<service, cup, wrappers, cquery>>

\* the caller takes the result
ExecuteReturn(c) ==
    /\ cpc[c] = "done"
    /\ cpc' = [cpc EXCEPT ![c] = "idle"]
    /\ UNCHANGED <<service, cup, wrappers, cquery, cresult>>

CallersNext ==
    \/ \E c \in Callers : KgExecuteBegin(c)
    \/ \E c \in Callers : SfiaExecuteBegin(c)
    \/ \E c \in Callers : ExecuteSend(c)
    \/ \E c \in Callers : ExecuteReturn(c)

CallersSpecInit ==
    /\ CallersInit /\ NormIdle /\ MapIdle /\ DedupIdle /\ LoadIdle /\ BulkIdle /\ QueryIdle
    /\ TextIdle /\ SfiaIdle

CallersSpecNext ==
    CallersNext /\ UNCHANGED <<normVars, mapVars, dedupVars, rerunVars, loadVars,
                               storeVars, bulkVars, queryVars, textVars, sfiaVars>>

\* concurrent query calls on one service object
SpecCallers == CallersSpecInit /\ [][CallersSpecNext]_vars

(***************************************************************************)
(* Properties of the Graph Loader                                          *)
(***************************************************************************)
\* the frameworks load_framework_files has been called for
ProcessedFrameworks == {LoaderFrameworks[i] : i \in 1..lidx}

\* the documents of the processed directories, as <<framework, position>>
ProcessedDocs ==
    {<<fw, i>> \in ProcessedFrameworks \X (1..MaxDocs + 1) : i <= Len(ldirs[fw].files)}

DocOf(d) == ldirs[d[1]].files[d[2]]

\* the triples of a parsed document and the provenance triples of its
\* URI subjects
Contribution(d) ==
    DocOf(d).triples \cup
        {<<t[1], "fromFramework", Lit(FrameworkName(d[1]))>> :
            t \in {x \in DocOf(d).triples : IsURIRef(x[1])}}

\* C15: whatever documents fail to parse, files_loaded counts the documents
\* that parsed, files_failed the ones that did not, and the aggregate graph
\* is the ontology header plus the triples and provenance of the parsed
\* documents, nothing else.
C15_FailuresSkipped ==
    lpc \in {"frameworks", "loaded"} =>
        /\ lstats.files_loaded = Cardinality({d \in ProcessedDocs : DocOf(d).valid})
        /\ lstats.files_failed = Cardinality({d \in ProcessedDocs : ~DocOf(d).valid})
        /\ lgraph = OntologyHeader
                       \cup UNION {Contribution(d) : d \in {x \in ProcessedDocs : DocOf(x).valid}}

\* all directories are loaded; in one of them a document failed before a
\* document that parsed, and a triple read from the failed one is not in
\* the graph
C15_Witness ==
    /\ lpc = "loaded"
    /\ \E fw \in FrameworkSet :
          /\ Len(ldirs[fw].files) = 2
          /\ ~ldirs[fw].files[1].valid
          /\ ldirs[fw].files[2].valid
          /\ \E t \in ldirs[fw].files[1].triples : t \notin lgraph
    /\ lstats.files_failed >= 1
    /\ lstats.files_loaded >= 1

(***************************************************************************)
(* Properties of the Bulk Loader                                           *)
(***************************************************************************)
\* C16: create_dataset is a create-if-absent in both scripts: a call made
\* while the dataset exists leaves the store as it is, and a call the store
\* answered, after which the dataset exists, returns success.
C16_CreateIfAbsent ==
    last.name # "" =>
        /\ last.existed => (last.unchanged /\ last.name \in sdatasets)
        /\ (last.answered /\ last.name \in sdatasets) => last.result

\* the datasets load_data.main has documents for
HasDocuments(name) ==
    \/ \E i \in 1..Len(BulkFrameworks) :
          /\ BulkFrameworks[i].dataset = name
          /\ bdirs[BulkFrameworks[i].dir].exists
          /\ bdirs[BulkFrameworks[i].dir].files # <<>>
    \/ name = "dechivo"

\* C17: at the end of load_data.main a dataset whose creation failed holds
\* no document of the run (it holds what it held when the run began), and
\* every other dataset was created and, if there are documents for it, sent
\* them.
C17_FailedDatasetSkipped ==
    (script = "load_data" /\ bpc = <<"done", 0>>) =>
        \A name \in Range(LoaderDatasets) :
            created[name] = "failed" =>
                /\ scontent[name] = snapshot.content[name]
                /\ \A other \in Range(LoaderDatasets) \ {name} :
                      /\ created[other] # "not called"
                      /\ HasDocuments(other) => sent[other] > 0

\* the triples of a document that have no blank node
GroundTriples(doc) == {t \in doc.triples : ~IsBlank(t[1]) /\ ~IsBlank(t[3])}

\* the store holds what the script is to put there: every dataset it loads
\* exists and holds the triples of every well-formed document
FullContent ==
    IF script = "load_data"
    THEN \A i \in 1..Len(BulkFrameworks) :
            LET fw == BulkFrameworks[i]
                files == bdirs[fw.dir].files
            IN  files # <<>> =>
                  /\ {fw.dataset, "dechivo"} \subseteq sdatasets
                  /\ \A k \in 1..Len(files) : files[k].valid =>
                        \A t \in GroundTriples(files[k]) :
                            /\ <<DefaultGraph, t>> \in scontent[fw.dataset]
                            /\ <<fw.graph_prefix \o <<FileIds[k]>>, t>> \in scontent["dechivo"]
    ELSE /\ "unified" \in sdatasets
         /\ \A t \in GroundTriples(bfile.doc) : <<DefaultGraph, t>> \in scontent["unified"]

\* C18: when the store answers every request, a run that comes to its end
\* (a first run, or one started after an earlier run stopped anywhere,
\* also between creation and upload) leaves the datasets existing with the
\* full content, and a run started after a complete run leaves the store's
\* triples as they were.
C18_SequenceIdempotent ==
    (bpc = <<"done", 0>> /\ faults = 0) =>
        /\ FullContent
        /\ snapshot.complete =>
              (scontent = snapshot.content /\ sdatasets = snapshot.datasets)

(***************************************************************************)
(* Properties of the Query Service                                         *)
(***************************************************************************)
\* the lowercase labels of the skills the store links to the occupation by
\* one of the skill predicates
StoreSkillLabels(occupation_uri) ==
    {Lower(LitValue(l[3])) :
        l \in {x \in qstore :
                  /\ x[2] = "rdfs:label"
                  /\ \E p \in SkillPredicates : <<occupation_uri, p, x[1]>> \in qstore}}

\* the subjects of the store whose label contains the name, in any case
StoreMatches(name) ==
    {t[1] : t \in {x \in qstore : /\ x[2] = "rdfs:label"
                                  /\ Contains(Lower(LitValue(x[3])), Lower(name))}}

\* one side of a calculate_skill_gap call: the name, what its search
\* returned and, when the name resolved, what its skills query returned
GapSide(n) ==
    LET executed == qcall.trace[n]
        hits     == executed[1].rows
        uri      == hits[1].occupation
    IN  [name     |-> qcall.args[n],
         resolved |-> hits # <<>>,
         hit      |-> IF hits # <<>> THEN hits[1] ELSE <<>>,
         inStore  |-> hits # <<>> => uri \in StoreMatches(qcall.args[n]),
         skills   |-> IF hits = <<>> \/ executed[2].rows = <<>> THEN {}
                      ELSE StoreSkillLabels(uri)]

\* the list holds exactly the elements of the set, each once
ListOf(list, set) == Range(list) = set /\ Len(list) = Cardinality(set)

\* C19: calculate_skill_gap resolves each name to its first search hit and
\* reports not-found when a name has no hit; otherwise, with C and T the
\* skill sets (lowercase labels) of the two hits as the store returned them,
\* transferable = C \cap T, to_acquire = T \ C, obsolete = C \ T, and the
\* overlap percentage is |C \cap T| / |T| * 100 rounded to one decimal (kept
\* in tenths of a percent), 0 when T is empty.
C19_SkillGap ==
    qcall.op = "calculate_skill_gap" =>
        LET cur == GapSide(1)
            tgt == GapSide(2)
            C   == cur.skills
            T   == tgt.skills
        IN  /\ cur.inStore /\ tgt.inStore
            /\ qresult.success = (cur.resolved /\ tgt.resolved)
            /\ qresult.success =>
                  /\ qresult.current_occupation = cur.hit
                  /\ qresult.target_occupation = tgt.hit
                  /\ ListOf(qresult.transferable_skills, C \cap T)
                  /\ ListOf(qresult.skills_to_acquire, T \ C)
                  /\ ListOf(qresult.obsolete_skills, C \ T)
                  /\ T = {} => qresult.skill_overlap_percentage = 0
                  /\ T # {} =>
                        LET d == qresult.skill_overlap_percentage * Cardinality(T)
                                    - 1000 * Cardinality(C \cap T)
                        IN  2 * d <= Cardinality(T) /\ -2 * d <= Cardinality(T)

\* a skill gap between two occupations that resolved, with transferable,
\* missing and obsolete skills
C19_Witness ==
    /\ qcall.op = "calculate_skill_gap"
    /\ qresult.success
    /\ qresult.transferable_skills # <<>>
    /\ qresult.skills_to_acquire # <<>>
    /\ qresult.obsolete_skills # <<>>
    /\ qresult.current_occupation # qresult.target_occupation

\* the lists of a get_occupation_skills result that hold the record
ListsHolding(categorized, skill) ==
    {k \in {"essential", "optional", "required"} : skill \in Range(categorized[k])}

C29_ReportedUnique ==
    dpc = "saved" =>
        /\ report.unique_occupations = Cardinality(UniqueOccupations)
        /\ report.unique_occupations = unique_count

(***************************************************************************)
(* Replacement of the served datasets                                      *)
(***************************************************************************)
\* the old datasets are in the store with the content the run found
OldDatasetsServed ==
    \A n \in Range(OldDatasets) :
        n \in sdatasets /\ scontent[n] = snapshot.content[n]

\* 'unified' is in the store and holds the deduplicated graph
UnifiedServed ==
    /\ bfile.exists
    /\ "unified" \in sdatasets
    /\ \A t \in GroundTriples(bfile.doc) : <<DefaultGraph, t>> \in scontent["unified"]

\* C30: a run of replace_fuseki_datasets.main that found the old datasets
\* in the store never loses the served data: when it has ended, also with
\* False because the graph file is missing or its upload failed, the old
\* datasets are still there or 'unified' holds the loaded graph.
C30_NoDataLoss ==
    (/\ script = "replace"
     /\ bpc[1] \in {"done", "failed", "raised"}
     /\ Range(OldDatasets) \subseteq snapshot.datasets) =>
        OldDatasetsServed \/ UnifiedServed

\* the skills both subjects are linked to by a skill predicate
StoreSharedSkills(a, b) ==
    {k \in {t[3] : t \in qstore} :
        /\ \E p \in SkillPredicates : <<a, p, k>> \in qstore
        /\ \E p \in SkillPredicates : <<b, p, k>> \in qstore}

\* the labelled entities of the store, other than the given one, that share
\* at least n skills with it
StoreSimilar(occupation_uri, n) ==
    {x \in {t[1] : t \in {y \in qstore : y[2] = "rdfs:label"}} :
        /\ x # occupation_uri
        /\ Cardinality(StoreSharedSkills(occupation_uri, x)) >= n}

\* C21: find_similar_occupations(occupation, N), when the occupation
\* resolved and the store returned rows, returns exactly the other
\* occupations that share at least N skills with it, never the occupation
\* itself and each occupation once, ordered by the number of shared skills
\* descending; N is 5 when the caller gives no value.
C21_SimilarOccupations ==
    (qcall.op = "find_similar_occupations" /\ qresult # <<>>) =>
        LET uri == qcall.trace[1].rows[1].occupation
            N   == IF Len(qcall.args) = 1 THEN 5 ELSE qcall.args[2]
            shared(i) == Cardinality(StoreSharedSkills(uri, qresult[i].similarOcc))
        IN  /\ {qresult[i].similarOcc : i \in 1..Len(qresult)} = StoreSimilar(uri, N)
            /\ \A i \in 1..Len(qresult) : qresult[i].similarOcc # uri
            /\ \A i, j \in 1..Len(qresult) :
                   i # j => qresult[i].similarOcc # qresult[j].similarOcc
            /\ \A i, j \in 1..Len(qresult) : i < j => shared(i) >= shared(j)
            /\ \A i \in 1..Len(qresult) : qresult[i].commonSkills = <<Digits[shared(i)]>>

\* the functions that return a list of records, with the field that holds
\* the label of a record
LabelField ==
    [search_occupations |-> "label", find_skills_by_keyword |-> "skillLabel",
     get_occupations_requiring_skill |-> "occLabel",
     find_similar_occupations |-> "occLabel"]

\* C22: every function that returns a list of records de-duplicates by
\* natural key: no two records of a returned list have the same lowercase
\* label.
C22_NoDuplicateLabels ==
    qcall.op \in DOMAIN LabelField =>
        \A i, j \in 1..Len(qresult) :
            i # j => Lower(qresult[i][LabelField[qcall.op]])
                        # Lower(qresult[j][LabelField[qcall.op]])

\* the rows the queries of the call returned, in order
RowsReturned ==
    IF qcall.op = "calculate_skill_gap"
       THEN [i \in 1..Len(qcall.trace[1]) |-> qcall.trace[1][i].rows]
               \o [i \in 1..Len(qcall.trace[2]) |-> qcall.trace[2][i].rows]
       ELSE [i \in 1..Len(qcall.trace) |-> qcall.trace[i].rows]

\* the store gave the call nothing: it is unreachable, or the first query
\* of the call (for calculate_skill_gap the search of either name)
\* returned zero bindings
NothingFromStore ==
    \/ ~qreachable
    \/ RowsReturned[1] = <<>>
    \/ qcall.op = "calculate_skill_gap" /\ qcall.trace[2][1].rows = <<>>

\* C24: when the store is unreachable or returns zero bindings, a Query
\* Service function returns an empty or degraded result: _execute_query
\* returns [] for every query of an unreachable store, the functions that
\* return a list return [], get_occupation_skills returns empty lists,
\* get_occupation_complete_profile returns found = False and
\* calculate_skill_gap returns success = False.
C24_DegradesToEmpty ==
    qcall.op # "none" =>
        /\ ~qreachable => \A i \in 1..Len(RowsReturned) : RowsReturned[i] = <<>>
        /\ NothingFromStore =>
              CASE qcall.op = "get_occupation_skills" ->
                       qresult = [essential |-> <<>>, optional |-> <<>>,
                                  required |-> <<>>, all |-> <<>>]
                [] qcall.op = "get_occupation_complete_profile" -> ~qresult.found
                [] qcall.op = "calculate_skill_gap" -> ~qresult.success
                [] OTHER -> qresult = <<>>

\* a skill gap is asked for two names the store has occupations for while
\* the store is unreachable, and the answer is success = False
C24_Witness ==
    /\ qcall.op = "calculate_skill_gap"
    /\ ~qreachable
    /\ StoreMatches(qcall.args[1]) # {} /\ StoreMatches(qcall.args[2]) # {}
    /\ ~qresult.success

(***************************************************************************)
(* Properties of the query texts                                           *)
(***************************************************************************)
\* the text the function of the call builds for a value
TextOf(op, value) ==
    CASE op = "search_occupations" -> GetOccupationByLabel(value)
      [] op = "get_occupation_skills" -> GetSkillsForOccupation(value)
      [] op = "find_skills_by_keyword" -> SearchSkillsByKeyword(value)
      [] op = "get_occupations_requiring_skill" -> GetOccupationsForSkill(value)
      [] op = "_basic_search_skills" -> BasicSearchSkills(value)

\* C23: the value a Query Service function embeds in the query text holds
\* only allow-listed characters, and the query has the structure of the
\* query for any other input (here the query for the value 'a'): an input
\* with a double quote, '>' or '}' adds or changes no clause.
C23_SanitizedInterpolation ==
    (tcall.op # "idle" /\ ttext # <<>>) =>
        /\ Embedded(ttext, "query") \subseteq {"a", " ", "-"}
        /\ Structure(ttext, "query") = Structure(TextOf(tcall.op, <<"a">>), "query")

\* _basic_search_skills is sent a keyword with a double quote and a '}' and
\* builds the query of the keyword without them
C23_SanitizedWitness ==
    /\ tcall.op = "_basic_search_skills"
    /\ "\"" \in Range(tcall.arg) /\ "a" \in Range(tcall.arg)
    /\ ttext = BasicSearchSkills(<<"a">>)

\* C23 for the one function that has a sanitizer
C23_BasicSearchSanitized ==
    tcall.op = "_basic_search_skills" => C23_SanitizedInterpolation

(***************************************************************************)
(* Properties of the SFIA service and the health checks                    *)
(***************************************************************************)
\* the store the health check asked was not reachable
AskedUnreachable ==
    \/ sanswer.op = "health_check" /\ KgEndpoint \notin sup
    \/ /\ sanswer.op = "kg_health_check"
       /\ instances[service_instance].fuseki_url \notin sup

\* what the health check answers for a service of that endpoint when the
\* store is reachable and holds no data
OnReachableEmptyStore ==
    IF sanswer.op = "health_check" THEN HealthReport(Endpoints)
    ELSE KgHealthReport([fuseki_url |-> instances[service_instance].fuseki_url,
                         enabled |-> TRUE], TRUE, Endpoints, 0)

\* C25: what a health check reports when the store is unreachable is a
\* not-connected status, and differs from what it reports when the store is
\* reachable but holds no data.
C25_FailureDistinguishable ==
    (sanswer.op \in {"health_check", "kg_health_check"} /\ AskedUnreachable) =>
        /\ ~sanswer.connected
        /\ sanswer # OnReachableEmptyStore

\* C25 for GET /api/kg/health alone
C25_KgRouteDistinguishable ==
    sanswer.op = "health_check" => C25_FailureDistinguishable

\* C27: is_connected() returns True for an instance only if the connection
\* to the instance's own endpoint was validated successfully since the last
\* reset_service.
C27_ConnectedOnlyIfValidated ==
    (sanswer.op = "is_connected" /\ sanswer.value) =>
        instances[sanswer.instance].fuseki_url \in validated

\* C28: between two reset_service calls get_sfia_service creates at most
\* one instance and returns the same instance to every caller.
C28_OneInstance ==
    /\ Cardinality(made) <= 1
    /\ Cardinality(handed) <= 1

(***************************************************************************)
(* Properties of concurrent callers                                        *)
(***************************************************************************)
\* every finished call has the result it would have alone
ResultsAsAlone ==
    \A c \in Callers : cpc[c] = "done" => cresult[c] = Alone(service, cquery[c])

\* C26: under every interleaving of concurrent query calls on one service
\* object no call modifies the state of the service (endpoint, credentials,
\* enabled flag), and each call returns what it would return if it ran
\* alone against the same store.
C26_ConcurrentCallers ==
    /\ []ResultsAsAlone
    /\ [][service' = service]_vars

\* two calls with different queries are in flight at once on a store that
\* answers, and the one that finished has the rows of its own query
C26_Witness ==
    /\ cup /\ service.enabled
    /\ cpc[1] = "done" /\ cpc[2] = "sending"
    /\ cquery[1] # cquery[2]
    /\ cresult[1] = <<cquery[1]>>
====
